---- MODULE Spec2Model ----
(***************************************************************************)
(* hoconfmt: the tokenizer (lexer.ts), the parser (parser.ts), the         *)
(* formatter (formatter.ts) and the check/format facade (index.ts).        *)
(*                                                                         *)
(* A text is a sequence of one-character strings.  Offsets are the         *)
(* 0-based offsets of the code; the cursor `pos` of the lexer is kept      *)
(* 1-based (offset = pos - 1), the cursor of the parser indexes the token  *)
(* sequence from 1.                                                        *)
(***************************************************************************)
EXTENDS Integers, Sequences, FiniteSets, TLC

----------------------------------------------------------------------------
(* Text helpers (JavaScript string primitives used by the code)            *)

Min(a, b) == IF a < b THEN a ELSE b

\* source[pos] ?? ''
Peek(src, pos) == IF pos >= 1 /\ pos <= Len(src) THEN src[pos] ELSE ""

\* source.slice(a, b) for cursors a <= b (1-based cursors, end exclusive, clipped)
Slice(src, a, b) == SubSeq(src, a, Min(b - 1, Len(src)))

\* s.startsWith(p)
StartsWith(s, p) == Len(s) >= Len(p) /\ SubSeq(s, 1, Len(p)) = p

\* s.endsWith(p)
EndsWith(s, p) == Len(s) >= Len(p) /\ SubSeq(s, Len(s) - Len(p) + 1, Len(s)) = p

\* s.includes(p)
Contains(s, p) ==
  \E i \in 1..(Len(s) - Len(p) + 1) : SubSeq(s, i, i + Len(p) - 1) = p

\* character.repeat(n)
Rep(c, n) == [i \in 1..n |-> c]

\* the concatenation of the texts ss[lo], ..., ss[hi]
RECURSIVE FlattenRange(_, _, _)
FlattenRange(ss, lo, hi) ==
  IF lo > hi THEN <<>>
  ELSE IF lo = hi THEN ss[lo]
  ELSE LET mid == (lo + hi) \div 2
       IN FlattenRange(ss, lo, mid) \o FlattenRange(ss, mid + 1, hi)

\* parts.join('')
Flatten(ss) == FlattenRange(ss, 1, Len(ss))

\* the least element of a non-empty set of integers
Least(S) == CHOOSE p \in S : \A q \in S : p <= q

\* s.split(sep) for a one-character separator
RECURSIVE SplitAt(_, _, _, _)
SplitAt(s, sep, i, cur) ==
  IF i > Len(s) THEN <<cur>>
  ELSE IF s[i] = sep THEN <<cur>> \o SplitAt(s, sep, i + 1, <<>>)
  ELSE SplitAt(s, sep, i + 1, Append(cur, s[i]))

Split(s, sep) == SplitAt(s, sep, 1, <<>>)

\* parts.join(sep)
RECURSIVE Join(_, _)
Join(parts, sep) ==
  IF parts = <<>> THEN <<>>
  ELSE IF Len(parts) = 1 THEN parts[1]
  ELSE parts[1] \o sep \o Join(Tail(parts), sep)

----------------------------------------------------------------------------
(* Lexer                                                                   *)

Digits == {"0", "1", "2", "3", "4", "5", "6", "7", "8", "9"}

Letters ==
  {"a", "b", "c", "d", "e", "f", "g", "h", "i", "j", "k", "l", "m",
   "n", "o", "p", "q", "r", "s", "t", "u", "v", "w", "x", "y", "z",
   "A", "B", "C", "D", "E", "F", "G", "H", "I", "J", "K", "L", "M",
   "N", "O", "P", "Q", "R", "S", "T", "U", "V", "W", "X", "Y", "Z"}

\* /[a-zA-Z0-9_\-.]/
UnquotedChars == Letters \cup Digits \cup {"_", "-", "."}

isUnquotedChar(c) == c \in UnquotedChars

isDigit(c) == c \in Digits

WhitespaceChars == {" ", "\t", "\r"}

\* a token; start and end are the offsets of location.start and location.end
Tok(type, value, raw, start, end) ==
  [type |-> type, value |-> value, raw |-> raw, start |-> start, end |-> end]

\* addToken / createToken: built BEFORE the cursor advances, start = end
addToken(type, text, pos) == Tok(type, text, text, pos - 1, pos - 1)

\* addTokenAt with the two offsets exchanged
addTokenAt_mut(type, value, raw, start, pos) == Tok(type, value, raw, pos - 1, start - 1)

\* addTokenAt: built after the scan, from startOffset to the cursor
addTokenAt(type, value, raw, start, pos) == Tok(type, value, raw, start - 1, pos - 1)

\* while (!isAtEnd() && !stops(peek())) advance(): the cursor moves to the first
\* position at or after pos that is in `stops`, or to the end of the source
SkipUntil(src, pos, stops) ==
  LET found == {p \in stops : p >= pos}
  IN IF found # {} THEN Least(found)
     ELSE IF pos > Len(src) THEN pos ELSE Len(src) + 1

\* while (!isAtEnd() && peek() in cs) advance()
SkipIn(src, pos, cs) ==
  SkipUntil(src, pos, {p \in pos..Len(src) : src[p] \notin cs})

\* while (!isAtEnd() && peek() !== stop) advance()
SkipTo(src, pos, stop) ==
  SkipUntil(src, pos, {p \in pos..Len(src) : src[p] = stop})

\* scanWhitespace that records a run of whitespace as one space
scanWhitespace_mut(src, start) ==
  LET pos == SkipIn(src, start, WhitespaceChars)
  IN [tok |-> addTokenAt("Whitespace", <<" ">>, <<" ">>, start, pos), pos |-> pos]

scanWhitespace(src, start) ==
  LET pos == SkipIn(src, start, WhitespaceChars)
      value == Slice(src, start, pos)
  IN [tok |-> addTokenAt("Whitespace", value, value, start, pos), pos |-> pos]

scanComment(src, start, style) ==
  LET after == IF style = "//" THEN start + 2 ELSE start + 1
      pos == SkipTo(src, after, "\n")
      raw == Slice(src, start, pos)
      value == IF style = "//" THEN SubSeq(raw, 3, Len(raw)) ELSE SubSeq(raw, 2, Len(raw))
  IN [tok |-> addTokenAt("Comment", value, raw, start, pos), pos |-> pos]

scanSubstitution(src, start) ==
  LET optional == Peek(src, start + 2) = "?"
      pathStart == IF optional THEN start + 3 ELSE start + 2
      pathEnd == SkipTo(src, pathStart, "}")
      path == Slice(src, pathStart, pathEnd)
      pos == IF pathEnd <= Len(src) THEN pathEnd + 1 ELSE pathEnd
      raw == Slice(src, start, pos)
  IN [tok |-> addTokenAt("Substitution", path, raw, start, pos), pos |-> pos]

\* the loop of scanMultilineString: stops at the next """ or at the end
SkipToTripleQuote(src, pos) ==
  SkipUntil(src, pos,
            {p \in pos..Len(src) :
               Peek(src, p) = "\"" /\ Peek(src, p + 1) = "\"" /\ Peek(src, p + 2) = "\""})

scanMultilineString(src, start) ==
  LET valueStart == start + 3
      valueEnd == SkipToTripleQuote(src, valueStart)
      value == Slice(src, valueStart, valueEnd)
      pos == IF valueEnd <= Len(src) THEN valueEnd + 3 ELSE valueEnd
      raw == Slice(src, start, pos)
  IN [tok |-> addTokenAt("MultilineString", value, raw, start, pos), pos |-> pos]

\* the switch of scanQuotedString on the character after a backslash
Unescape(escaped) ==
  CASE escaped = "n" -> <<"\n">>
    [] escaped = "t" -> <<"\t">>
    [] escaped = "r" -> <<"\r">>
    [] escaped = "\\" -> <<"\\">>
    [] escaped = "\"" -> <<"\"">>
    [] OTHER -> IF escaped = "" THEN <<"\\">> ELSE <<"\\", escaped>>

\* the loop of scanQuotedString; returns the decoded value and the cursor.
\* The iterations that copy one plain character each (the else branch) are
\* taken together: the cursor moves to the next quote or backslash.
RECURSIVE QuotedLoop(_, _, _)
QuotedLoop(src, pos, value) ==
  LET q == SkipUntil(src, pos, {p \in pos..Len(src) : src[p] \in {"\"", "\\"}})
      plain == value \o Slice(src, pos, q)
  IN IF q <= Len(src) /\ src[q] = "\\"
     THEN QuotedLoop(src, q + 2, plain \o Unescape(Peek(src, q + 1)))
     ELSE [value |-> plain, pos |-> q]

scanQuotedString(src, start) ==
  LET body == QuotedLoop(src, start + 1, <<>>)
      pos == IF body.pos <= Len(src) THEN body.pos + 1 ELSE body.pos
      raw == Slice(src, start, pos)
  IN [tok |-> addTokenAt("String", body.value, raw, start, pos), pos |-> pos]

scanNumber(src, start) ==
  LET p1 == IF Peek(src, start) = "-" THEN start + 1 ELSE start
      p2 == SkipIn(src, p1, Digits)
      p3 == IF Peek(src, p2) = "." /\ isDigit(Peek(src, p2 + 1))
            THEN SkipIn(src, p2 + 1, Digits) ELSE p2
      p4 == IF Peek(src, p3) \in {"e", "E"}
            THEN SkipIn(src, IF Peek(src, p3 + 1) \in {"+", "-"} THEN p3 + 2 ELSE p3 + 1,
                        Digits)
            ELSE p3
      raw == Slice(src, start, p4)
  IN [tok |-> addTokenAt("Number", raw, raw, start, p4), pos |-> p4]

KwTrue == <<"t", "r", "u", "e">>
KwFalse == <<"f", "a", "l", "s", "e">>
KwNull == <<"n", "u", "l", "l">>
KwInclude == <<"i", "n", "c", "l", "u", "d", "e">>

scanUnquoted(src, start) ==
  LET pos == SkipIn(src, start, UnquotedChars)
      value == Slice(src, start, pos)
      type == IF value = KwTrue \/ value = KwFalse THEN "Boolean"
              ELSE IF value = KwNull THEN "Null"
              ELSE IF value = KwInclude THEN "Include"
              ELSE "Key"
  IN [tok |-> addTokenAt(type, value, value, start, pos), pos |-> pos]

Structural ==
  [c \in {"{", "}", "[", "]", ",", ":", "="} |->
     CASE c = "{" -> "LeftBrace" [] c = "}" -> "RightBrace"
       [] c = "[" -> "LeftBracket" [] c = "]" -> "RightBracket"
       [] c = "," -> "Comma" [] c = ":" -> "Colon" [] c = "=" -> "Equals"]

\* one call of scanToken at cursor pos: the tokens it pushes (none or one) and
\* the new cursor
scanToken(src, pos) ==
  LET char == Peek(src, pos)
      next == Peek(src, pos + 1)
      one(r) == [toks |-> <<r.tok>>, pos |-> r.pos]
  IN IF char \in WhitespaceChars THEN one(scanWhitespace(src, pos))
     ELSE IF char = "\n" THEN [toks |-> <<addToken("Newline", <<"\n">>, pos)>>, pos |-> pos + 1]
     ELSE IF char = "/" /\ next = "/" THEN one(scanComment(src, pos, "//"))
     ELSE IF char = "#" THEN one(scanComment(src, pos, "#"))
     ELSE IF char \in DOMAIN Structural
          THEN [toks |-> <<addToken(Structural[char], <<char>>, pos)>>, pos |-> pos + 1]
     ELSE IF char = "+" /\ next = "="
          THEN [toks |-> <<addToken("PlusEquals", <<"+", "=">>, pos)>>, pos |-> pos + 2]
     ELSE IF char = "$" /\ next = "{" THEN one(scanSubstitution(src, pos))
     ELSE IF char = "\"" /\ next = "\"" /\ Peek(src, pos + 2) = "\""
          THEN one(scanMultilineString(src, pos))
     ELSE IF char = "\"" THEN one(scanQuotedString(src, pos))
     ELSE IF isDigit(char) \/ (char = "-" /\ isDigit(next)) THEN one(scanNumber(src, pos))
     ELSE IF isUnquotedChar(char) THEN one(scanUnquoted(src, pos))
     ELSE [toks |-> <<>>, pos |-> pos + 1]

RECURSIVE ScanAll(_, _, _)
ScanAll(src, pos, toks) ==
  IF pos > Len(src) THEN Append(toks, addToken("EOF", <<>>, pos))
  ELSE LET r == scanToken(src, pos) IN ScanAll(src, r.pos, toks \o r.toks)

tokenize(src) == ScanAll(src, 1, <<>>)

----------------------------------------------------------------------------
(* Parser                                                                  *)
(*                                                                         *)
(* The parser's fields are threaded through the operators: `pos` is        *)
(* this.pos (1-based), `pend` is this.pendingComments.  An operator        *)
(* returns the node it built with the new pos and pend.  `hang` is TRUE    *)
(* when the call never returns (a loop of the code that repeats a state).  *)
(* An intermediate result of the code (const x = this.parseX()) is the     *)
(* argument of a local operator that holds the statements after it.        *)

currentToken(toks, pos) == IF pos <= Len(toks) THEN toks[pos] ELSE toks[Len(toks)]

previousToken(toks, pos) == IF pos - 1 >= 1 THEN toks[pos - 1] ELSE toks[1]

isAtEnd(toks, pos) == currentToken(toks, pos).type = "EOF"

\* advance(): the new cursor
advance(toks, pos) == IF isAtEnd(toks, pos) THEN pos ELSE pos + 1

RECURSIVE skipWhitespace(_, _)
skipWhitespace(toks, pos) ==
  IF currentToken(toks, pos).type = "Whitespace"
  THEN skipWhitespace(toks, advance(toks, pos)) ELSE pos

RECURSIVE skipWhitespaceAndNewlines(_, _)
skipWhitespaceAndNewlines(toks, pos) ==
  IF currentToken(toks, pos).type \in {"Whitespace", "Newline"}
  THEN skipWhitespaceAndNewlines(toks, advance(toks, pos)) ELSE pos

canStartValue(toks, pos) ==
  currentToken(toks, pos).type \in
    {"LeftBrace", "LeftBracket", "String", "MultilineString", "Number",
     "Boolean", "Null", "Substitution", "Key"}

isAtLineEnd(toks, pos) ==
  currentToken(toks, pos).type \in
    {"Newline", "Comment", "EOF", "RightBrace", "RightBracket", "Comma"}

\* node.f = v on a JavaScript object: the field is added when it is absent
SetField(node, f, v) ==
  [g \in DOMAIN node \cup {f} |-> IF g = f THEN v ELSE node[g]]

parseComment(toks, pos) ==
  LET token == currentToken(toks, pos)
  IN [node |-> [type |-> "Comment",
                style |-> IF StartsWith(token.raw, <<"/", "/">>) THEN "//" ELSE "#",
                value |-> token.value,
                start |-> token.start, end |-> token.end],
      pos |-> advance(toks, pos)]

RECURSIVE collectComments(_, _, _)
collectComments(toks, pos, pend) ==
  IF currentToken(toks, pos).type = "Comment"
  THEN LET c == parseComment(toks, pos)
       IN collectComments(toks, skipWhitespaceAndNewlines(toks, c.pos), Append(pend, c.node))
  ELSE [pos |-> pos, pend |-> pend]

\* parseString, parseMultilineString, parseUnquotedString, parseNumber,
\* parseBoolean, parseNull, parseSubstitution: one token, one node
parseLeaf(toks, pos) ==
  LET token == currentToken(toks, pos)
      loc == [start |-> token.start, end |-> token.end]
  IN CASE token.type \in {"String", "Key"} ->
            [type |-> "String", value |-> token.value, raw |-> token.raw,
             multiline |-> FALSE] @@ loc
       [] token.type = "MultilineString" ->
            [type |-> "String", value |-> token.value, raw |-> token.raw,
             multiline |-> TRUE] @@ loc
       [] token.type = "Number" -> [type |-> "Number", raw |-> token.raw] @@ loc
       [] token.type = "Boolean" ->
            [type |-> "Boolean", value |-> (token.value = KwTrue)] @@ loc
       [] token.type = "Null" -> [type |-> "Null"] @@ loc
       [] token.type = "Substitution" ->
            [type |-> "Substitution", path |-> token.value,
             optional |-> Contains(token.raw, <<"$", "{", "?">>),
             raw |-> token.raw] @@ loc

isKeyToken(toks, pos) == currentToken(toks, pos).type \in {"Key", "String"}

\* the while loop of parseKey
RECURSIVE KeyLoop(_, _, _, _)
KeyLoop(toks, pos, parts, raw) ==
  IF currentToken(toks, pos).raw = <<".">>
  THEN LET p1 == advance(toks, pos)
       IN IF isKeyToken(toks, p1)
          THEN KeyLoop(toks, advance(toks, p1),
                       Append(parts, currentToken(toks, p1).value),
                       raw \o <<".">> \o currentToken(toks, p1).raw)
          ELSE KeyLoop(toks, p1, parts, Append(raw, "."))
  ELSE [parts |-> parts, raw |-> raw, pos |-> pos]

parseKey(toks, pos) ==
  LET startLoc == currentToken(toks, pos)
      first == isKeyToken(toks, pos)
      k == KeyLoop(toks,
                   IF first THEN advance(toks, pos) ELSE pos,
                   IF first THEN <<currentToken(toks, pos).value>> ELSE <<>>,
                   IF first THEN currentToken(toks, pos).raw ELSE <<>>)
      parts == IF Len(k.parts) = 1 /\ Contains(k.raw, <<".">>)
               THEN Split(k.raw, ".") ELSE k.parts
  IN [node |-> [type |-> "Key", parts |-> parts, raw |-> k.raw,
                start |-> startLoc.start, end |-> previousToken(toks, k.pos).end],
      pos |-> k.pos]

IncludeKinds == {<<"f", "i", "l", "e">>, <<"u", "r", "l">>,
                 <<"c", "l", "a", "s", "s", "p", "a", "t", "h">>}
KwRequired == <<"r", "e", "q", "u", "i", "r", "e", "d">>

\* if (this.currentToken().raw === c) this.advance()
skipRaw(toks, pos, c) == IF currentToken(toks, pos).raw = <<c>> THEN advance(toks, pos) ELSE pos

parseInclude(toks, pos) ==
  LET startLoc == currentToken(toks, pos)
      p1 == skipWhitespace(toks, advance(toks, pos))
      nextToken == currentToken(toks, p1)
      isReq == nextToken.type = "Key" /\ nextToken.value = KwRequired
      isKind == nextToken.type = "Key" /\ nextToken.value \in IncludeKinds
      p2 == IF isReq \/ isKind
            THEN skipRaw(toks, skipWhitespace(toks, advance(toks, p1)), "(")
            ELSE p1
      p3 == skipWhitespace(toks, p2)
      hasPath == currentToken(toks, p3).type = "String"
      p4 == skipWhitespace(toks, IF hasPath THEN advance(toks, p3) ELSE p3)
      p5 == skipWhitespace(toks, skipRaw(toks, p4, ")"))
      p6 == skipRaw(toks, p5, ")")
  IN [node |-> [type |-> "Include",
                path |-> IF hasPath THEN currentToken(toks, p3).value ELSE <<>>,
                required |-> isReq,
                kind |-> IF isKind THEN nextToken.value ELSE <<"f", "i", "l", "e">>,
                start |-> startLoc.start, end |-> previousToken(toks, p6).end],
      pos |-> p6]

\* the result of a call that does not return
Hang == [hang |-> TRUE]

RECURSIVE parseValue(_, _, _)
RECURSIVE parseSingleValue(_, _, _)
RECURSIVE ValueLoop(_, _, _, _)
RECURSIVE parseObject(_, _, _)
RECURSIVE ObjectLoop(_, _, _, _)
RECURSIVE parseArray(_, _, _)
RECURSIVE ArrayLoop(_, _, _, _)
RECURSIVE parseField(_, _, _)
RECURSIVE parseRootElement(_, _, _)

\* the while loop of parseValue; entered after skipWhitespace
ValueLoop(toks, pos, pend, parts) ==
  LET Push(v) ==
        IF v.hang THEN Hang
        ELSE ValueLoop(toks, skipWhitespace(toks, v.pos), v.pend, Append(parts, v.node))
  IN IF canStartValue(toks, pos) /\ ~isAtLineEnd(toks, pos)
     THEN Push(parseSingleValue(toks, pos, pend))
     ELSE [parts |-> parts, pos |-> pos, pend |-> pend, hang |-> FALSE]

\* parseValue that wraps a single unit too
parseValue_mut(toks, pos, pend) ==
  LET Result(firstValue, l) ==
        IF l.hang THEN Hang
        ELSE [node |-> [type |-> "Concatenation", parts |-> l.parts,
                        start |-> firstValue.node.start,
                        end |-> l.parts[Len(l.parts)].end],
              pos |-> l.pos, pend |-> l.pend, hang |-> FALSE]
      Rest(firstValue) ==
        IF firstValue.hang THEN Hang
        ELSE Result(firstValue,
                    ValueLoop(toks, skipWhitespace(toks, firstValue.pos), firstValue.pend,
                              <<firstValue.node>>))
  IN Rest(parseSingleValue(toks, pos, pend))

parseValue(toks, pos, pend) ==
  LET Result(firstValue, l) ==
        IF l.hang THEN Hang
        ELSE [node |-> IF Len(l.parts) = 1 THEN l.parts[1]
                       ELSE [type |-> "Concatenation", parts |-> l.parts,
                             start |-> firstValue.node.start,
                             end |-> l.parts[Len(l.parts)].end],
              pos |-> l.pos, pend |-> l.pend, hang |-> FALSE]
      Rest(firstValue) ==
        IF firstValue.hang THEN Hang
        ELSE Result(firstValue,
                    ValueLoop(toks, skipWhitespace(toks, firstValue.pos), firstValue.pend,
                              <<firstValue.node>>))
  IN Rest(parseSingleValue(toks, pos, pend))

parseSingleValue(toks, pos, pend) ==
  LET token == currentToken(toks, pos)
  IN IF token.type = "LeftBrace" THEN parseObject(toks, pos, pend)
     ELSE IF token.type = "LeftBracket" THEN parseArray(toks, pos, pend)
     ELSE IF token.type \in {"String", "MultilineString", "Number", "Boolean", "Null",
                              "Substitution", "Key"}
          THEN [node |-> parseLeaf(toks, pos), pos |-> advance(toks, pos),
                pend |-> pend, hang |-> FALSE]
     ELSE \* default to empty string, nothing consumed
          [node |-> [type |-> "String", value |-> <<>>, raw |-> <<>>, multiline |-> FALSE,
                     start |-> token.start, end |-> token.end],
           pos |-> pos, pend |-> pend, hang |-> FALSE]

\* if (node) { if (pendingComments.length > 0) { node.leadingComments = [...] ;
\* pendingComments = [] } list.push(node) }
Attach(r) ==
  IF r.node = <<>> THEN [nodes |-> <<>>, pend |-> r.pend]
  ELSE IF Len(r.pend) > 0
       THEN [nodes |-> <<SetField(r.node[1], "leadingComments", r.pend)>>, pend |-> <<>>]
       ELSE [nodes |-> r.node, pend |-> r.pend]

\* skipWhitespace(); if (Comma) advance(); skipWhitespaceAndNewlines()
skipComma(toks, pos) ==
  LET AfterSpace(p1) ==
        skipWhitespaceAndNewlines(
          toks, IF currentToken(toks, p1).type = "Comma" THEN advance(toks, p1) ELSE p1)
  IN AfterSpace(skipWhitespace(toks, pos))

\* the while loop of parseObject and what follows it
ObjectLoop(toks, pos, pend, fields) ==
  LET done(p, pd) == [fields |-> fields \o pd,
                      pos |-> IF currentToken(toks, p).type = "RightBrace"
                              THEN advance(toks, p) ELSE p,
                      pend |-> <<>>, hang |-> FALSE]
      Push(r, a) == ObjectLoop(toks, skipComma(toks, r.pos), a.pend, fields \o a.nodes)
      Member(r) == IF r.hang THEN Hang ELSE Push(r, Attach(r))
      Body(c) ==
        IF currentToken(toks, c.pos).type = "RightBrace" THEN done(c.pos, c.pend)
        ELSE Member(parseRootElement(toks, c.pos, c.pend))
  IN IF isAtEnd(toks, pos) \/ currentToken(toks, pos).type = "RightBrace"
     THEN done(pos, pend)
     ELSE Body(collectComments(toks, pos, pend))

parseObject(toks, pos, pend) ==
  LET startLoc == currentToken(toks, pos)
      Node(l) ==
        IF l.hang THEN Hang
        ELSE [node |-> [type |-> "Object", fields |-> l.fields,
                        start |-> startLoc.start, end |-> previousToken(toks, l.pos).end],
              pos |-> l.pos, pend |-> l.pend, hang |-> FALSE]
  IN Node(ObjectLoop(toks, skipWhitespaceAndNewlines(toks, advance(toks, pos)), pend, <<>>))

\* the while loop of parseArray and what follows it
ArrayLoop(toks, pos, pend, elements) ==
  LET done(p, pd) == [elements |-> elements,
                      pos |-> IF currentToken(toks, p).type = "RightBracket"
                              THEN advance(toks, p) ELSE p,
                      pend |-> pd, hang |-> FALSE]
      Again(p, es, pd) ==
        IF p = pos /\ es = elements /\ pd = pend
        THEN Hang  \* the iteration changed nothing: the loop never ends
        ELSE ArrayLoop(toks, p, pd, es)
      Element(withComments, starts, v) ==
        IF v.hang THEN Hang
        ELSE Again(skipComma(toks, v.pos),
                   IF starts THEN Append(withComments, v.node) ELSE withComments,
                   v.pend)
      Body(c) ==
        IF currentToken(toks, c.pos).type = "RightBracket" THEN done(c.pos, c.pend)
        ELSE Element(elements \o c.pend,
                     canStartValue(toks, c.pos),
                     IF canStartValue(toks, c.pos) THEN parseValue(toks, c.pos, <<>>)
                     ELSE [pos |-> c.pos, pend |-> <<>>, hang |-> FALSE])
  IN IF isAtEnd(toks, pos) \/ currentToken(toks, pos).type = "RightBracket"
     THEN done(pos, pend)
     ELSE Body(collectComments(toks, pos, pend))

parseArray(toks, pos, pend) ==
  LET startLoc == currentToken(toks, pos)
      Node(l) ==
        IF l.hang THEN Hang
        ELSE [node |-> [type |-> "Array", elements |-> l.elements,
                        start |-> startLoc.start, end |-> previousToken(toks, l.pos).end],
              pos |-> l.pos, pend |-> l.pend, hang |-> FALSE]
  IN Node(ArrayLoop(toks, skipWhitespaceAndNewlines(toks, advance(toks, pos)), pend, <<>>))

\* parseField that looks for the trailing comment past the end of the line
parseField_mut(toks, pos, pend) ==
  LET startLoc == currentToken(toks, pos)
      Trailing(key, separator, value, p3) ==
        LET hasTrailing == currentToken(toks, p3).type = "Comment"
            p4 == IF hasTrailing THEN advance(toks, p3) ELSE p3
            field == [type |-> "Field", key |-> key.node, separator |-> separator,
                      value |-> value.node,
                      start |-> startLoc.start, end |-> previousToken(toks, p4).end]
        IN [node |-> <<IF hasTrailing
                       THEN SetField(field, "trailingComment", parseComment(toks, p3).node)
                       ELSE field>>,
            pos |-> p4, pend |-> value.pend, hang |-> FALSE]
      Value(key, separator, value) ==
        IF value.hang THEN Hang
        ELSE Trailing(key, separator, value, skipWhitespaceAndNewlines(toks, value.pos))
      Separator(key, p1) ==
        LET sepToken == currentToken(toks, p1)
            separator == IF sepToken.type = "Equals" THEN "="
                         ELSE IF sepToken.type = "Colon" THEN ":"
                         ELSE IF sepToken.type = "PlusEquals" THEN "="
                         ELSE "none"
            p2 == IF sepToken.type \in {"Equals", "Colon", "PlusEquals"}
                  THEN advance(toks, p1) ELSE p1
        IN Value(key, separator, parseValue(toks, skipWhitespace(toks, p2), pend))
      Key(key) == Separator(key, skipWhitespace(toks, key.pos))
  IN Key(parseKey(toks, pos))

parseField(toks, pos, pend) ==
  LET startLoc == currentToken(toks, pos)
      Trailing(key, separator, value, p3) ==
        LET hasTrailing == currentToken(toks, p3).type = "Comment"
            p4 == IF hasTrailing THEN advance(toks, p3) ELSE p3
            field == [type |-> "Field", key |-> key.node, separator |-> separator,
                      value |-> value.node,
                      start |-> startLoc.start, end |-> previousToken(toks, p4).end]
        IN [node |-> <<IF hasTrailing
                       THEN SetField(field, "trailingComment", parseComment(toks, p3).node)
                       ELSE field>>,
            pos |-> p4, pend |-> value.pend, hang |-> FALSE]
      Value(key, separator, value) ==
        IF value.hang THEN Hang
        ELSE Trailing(key, separator, value, skipWhitespace(toks, value.pos))
      Separator(key, p1) ==
        LET sepToken == currentToken(toks, p1)
            separator == IF sepToken.type = "Equals" THEN "="
                         ELSE IF sepToken.type = "Colon" THEN ":"
                         ELSE IF sepToken.type = "PlusEquals" THEN "="
                         ELSE "none"
            p2 == IF sepToken.type \in {"Equals", "Colon", "PlusEquals"}
                  THEN advance(toks, p1) ELSE p1
        IN Value(key, separator, parseValue(toks, skipWhitespace(toks, p2), pend))
      Key(key) == Separator(key, skipWhitespace(toks, key.pos))
  IN Key(parseKey(toks, pos))

\* returns the node as a sequence: empty for null
parseRootElement(toks, pos, pend) ==
  LET token == currentToken(toks, pos)
      Single(r) == [node |-> <<r.node>>, pos |-> r.pos, pend |-> pend, hang |-> FALSE]
  IN IF token.type = "Include" THEN Single(parseInclude(toks, pos))
     ELSE IF token.type \in {"Key", "String"} THEN parseField(toks, pos, pend)
     ELSE IF token.type = "Comment" THEN Single(parseComment(toks, pos))
     ELSE \* skip unknown tokens
          [node |-> <<>>, pos |-> advance(toks, pos), pend |-> pend, hang |-> FALSE]

\* the while loop of Parser.parse and the flush of the remaining comments
RECURSIVE DocumentLoop(_, _, _, _)
DocumentLoop(toks, pos, pend, body) ==
  LET Push(r, a) ==
        DocumentLoop(toks, skipWhitespaceAndNewlines(toks, r.pos), a.pend, body \o a.nodes)
      Member(r) == IF r.hang THEN Hang ELSE Push(r, Attach(r))
      Body(c) ==
        IF isAtEnd(toks, c.pos) THEN [body |-> body \o c.pend, hang |-> FALSE]
        ELSE Member(parseRootElement(toks, c.pos, c.pend))
  IN IF isAtEnd(toks, pos) THEN [body |-> body \o pend, hang |-> FALSE]
     ELSE Body(collectComments(toks, pos, pend))

\* Parser.parse: the Document node, or Hang
parseTokens(toks) ==
  LET Document(l) ==
        IF l.hang THEN Hang
        ELSE [type |-> "Document", body |-> l.body, hang |-> FALSE,
              start |-> toks[1].start, end |-> toks[Len(toks)].end]
  IN Document(DocumentLoop(toks, skipWhitespaceAndNewlines(toks, 1), <<>>, <<>>))

\* parse(source)
parse(src) == parseTokens(tokenize(src))

----------------------------------------------------------------------------
(* Formatter (DEFAULT_OPTIONS and class Formatter)                         *)
(*                                                                         *)
(* this.output is returned by each operator as the text it appends;        *)
(* this.indentLevel is the parameter `level`.                              *)

indentSize == 2
indentChar == " "
keyValueSeparator == <<" ", "=", " ">>
normalizeComments == <<"/", "/">>
maxLineLength == 80

NL == <<"\n">>

writeIndent(level) == Rep(indentChar, indentSize * level)

\* str.replace(/c/g, rep)
ReplaceAll(s, c, rep) ==
  Flatten([i \in 1..Len(s) |-> IF s[i] = c THEN rep ELSE <<s[i]>>])

\* escapeString that escapes the double quotes before the backslashes
escapeString_mut(str) ==
  ReplaceAll(
    ReplaceAll(
      ReplaceAll(
        ReplaceAll(
          ReplaceAll(str, "\"", <<"\\", "\"">>),
          "\\", <<"\\", "\\">>),
        "\n", <<"\\", "n">>),
      "\r", <<"\\", "r">>),
    "\t", <<"\\", "t">>)

escapeString(str) ==
  ReplaceAll(
    ReplaceAll(
      ReplaceAll(
        ReplaceAll(
          ReplaceAll(str, "\\", <<"\\", "\\">>),
          "\"", <<"\\", "\"">>),
        "\n", <<"\\", "n">>),
      "\r", <<"\\", "r">>),
    "\t", <<"\\", "t">>)

Quoted(str) == <<"\"">> \o escapeString(str) \o <<"\"">>

needsQuoting(str) ==
  \/ Len(str) = 0
  \/ str \in {KwTrue, KwFalse, KwNull, KwInclude}
  \/ \E i \in 1..Len(str) : str[i] \notin UnquotedChars

\* formatComment with normalizeComments = 'preserve': the marker of the source
formatComment_mut(node) ==
  (IF node.style = "#" THEN <<"#">> ELSE <<"/", "/">>) \o node.value

formatComment(node) == normalizeComments \o node.value

\* formatInclude that writes the wrapper of every kind, 'file' included
formatInclude_mut(node, level) ==
  writeIndent(level)
  \o <<"i", "n", "c", "l", "u", "d", "e", " ">>
  \o (IF node.required THEN KwRequired \o <<"(">> ELSE <<>>)
  \o node.kind \o <<"(">> \o Quoted(node.path) \o <<")">>
  \o (IF node.required THEN <<")">> ELSE <<>>)

formatInclude(node, level) ==
  LET isFile == node.kind = <<"f", "i", "l", "e">>
  IN writeIndent(level)
     \o <<"i", "n", "c", "l", "u", "d", "e", " ">>
     \o (IF node.required THEN KwRequired \o <<"(">> ELSE <<>>)
     \o (IF ~isFile THEN node.kind \o <<"(">> ELSE <<>>)
     \o Quoted(node.path)
     \o (IF ~isFile THEN <<")">> ELSE <<>>)
     \o (IF node.required THEN <<")">> ELSE <<>>)

formatKeyPart(part) == IF needsQuoting(part) THEN Quoted(part) ELSE part

formatKey(node) ==
  IF Len(node.parts) = 1 THEN formatKeyPart(node.parts[1])
  ELSE Join([i \in 1..Len(node.parts) |-> formatKeyPart(node.parts[i])], <<".">>)

formatString(node) ==
  IF node.multiline
  THEN <<"\"", "\"", "\"">> \o node.value \o <<"\"", "\"", "\"">>
  ELSE Quoted(node.value)

formatNumber(node) == node.raw

formatBoolean(node) == IF node.value THEN KwTrue ELSE KwFalse

formatNull == KwNull

formatSubstitution(node) ==
  IF node.optional THEN <<"$", "{", "?">> \o node.path \o <<"}">>
  ELSE <<"$", "{">> \o node.path \o <<"}">>

RECURSIVE estimateValueLength(_)
RECURSIVE SumEstimates(_)
SumEstimates(nodes) ==
  IF nodes = <<>> THEN 0 ELSE estimateValueLength(Head(nodes)) + SumEstimates(Tail(nodes))

estimateValueLength(node) ==
  CASE node.type = "Comment" -> 100
    [] node.type = "String" -> Len(node.value) + 2
    [] node.type = "Number" -> Len(node.raw)
    [] node.type = "Boolean" -> IF node.value THEN 4 ELSE 5
    [] node.type = "Null" -> 4
    [] node.type = "Substitution" -> Len(node.raw)
    [] node.type = "Object" -> 100
    [] node.type = "Array" -> 100
    [] node.type = "Concatenation" -> SumEstimates(node.parts)
    [] OTHER -> 10

\* canArrayFitOnLine with the comparison estimatedLength <= maxLineLength
canArrayFitOnLine_mut(node) ==
  /\ \A i \in 1..Len(node.elements) : node.elements[i].type # "Comment"
  /\ 2 + 2 * (Len(node.elements) - 1) + SumEstimates(node.elements) <= maxLineLength

canArrayFitOnLine(node) ==
  /\ \A i \in 1..Len(node.elements) : node.elements[i].type # "Comment"
  /\ 2 + 2 * (Len(node.elements) - 1) + SumEstimates(node.elements) < maxLineLength

\* node.precedingBlankLines !== undefined && node.precedingBlankLines > 0
hasPrecedingBlankLines(node) ==
  "precedingBlankLines" \in DOMAIN node /\ node.precedingBlankLines > 0

RECURSIVE formatValue(_, _)
RECURSIVE formatRootElement(_, _)

\* the member loop shared by formatDocument and formatObject, from index i
RECURSIVE formatMembers(_, _, _)
formatMembers(nodes, i, level) ==
  IF i > Len(nodes) THEN <<>>
  ELSE (IF i # 1 /\ hasPrecedingBlankLines(nodes[i]) THEN NL ELSE <<>>)
       \o formatRootElement(nodes[i], level) \o NL
       \o formatMembers(nodes, i + 1, level)

\* formatField with keyValueSeparator = '=' (no spaces around it)
formatField_mut(node, level) ==
  writeIndent(level) \o formatKey(node.key) \o <<"=">>
  \o formatValue(node.value, level)
  \o (IF "trailingComment" \in DOMAIN node
      THEN <<" ">> \o formatComment(node.trailingComment) ELSE <<>>)

formatField(node, level) ==
  writeIndent(level) \o formatKey(node.key) \o keyValueSeparator
  \o formatValue(node.value, level)
  \o (IF "trailingComment" \in DOMAIN node
      THEN <<" ">> \o formatComment(node.trailingComment) ELSE <<>>)

formatRootElement(node, level) ==
  LET leading == IF "leadingComments" \in DOMAIN node THEN node.leadingComments ELSE <<>>
  IN Flatten([i \in 1..Len(leading) |-> formatComment(leading[i]) \o NL])
     \o (CASE node.type = "Include" -> formatInclude(node, level)
           [] node.type = "Field" -> formatField(node, level)
           [] node.type = "Comment" -> formatComment(node)
           [] OTHER -> <<>>)

\* formatObject that writes the closing brace before indentLevel-- takes effect
formatObject_mut(node, level) ==
  IF Len(node.fields) = 0 THEN <<"{", "}">>
  ELSE <<"{">> \o NL \o formatMembers(node.fields, 1, level + 1)
       \o writeIndent(level + 1) \o <<"}">>

formatObject(node, level) ==
  IF Len(node.fields) = 0 THEN <<"{", "}">>
  ELSE <<"{">> \o NL \o formatMembers(node.fields, 1, level + 1)
       \o writeIndent(level) \o <<"}">>

formatElement(element, level) ==
  IF element.type = "Comment" THEN formatComment(element) ELSE formatValue(element, level)

formatArray(node, level) ==
  IF Len(node.elements) = 0 THEN <<"[", "]">>
  ELSE IF canArrayFitOnLine(node)
  THEN <<"[">>
       \o Join([i \in 1..Len(node.elements) |-> formatElement(node.elements[i], level)],
               <<",", " ">>)
       \o <<"]">>
  ELSE <<"[">> \o NL
       \o Flatten([i \in 1..Len(node.elements) |->
                     writeIndent(level + 1) \o formatElement(node.elements[i], level + 1)
                     \o NL])
       \o writeIndent(level) \o <<"]">>

\* formatConcatenation that writes a space between every two parts
formatConcatenation_mut(node, level) ==
  Flatten([i \in 1..Len(node.parts) |->
             (IF i > 1 THEN <<" ">> ELSE <<>>) \o formatValue(node.parts[i], level)])

formatConcatenation(node, level) ==
  Flatten([i \in 1..Len(node.parts) |->
             (IF i > 1 /\ node.parts[i - 1].type # "Substitution"
                       /\ node.parts[i].type # "Substitution"
              THEN <<" ">> ELSE <<>>)
             \o formatValue(node.parts[i], level)])

formatValue(node, level) ==
  CASE node.type = "String" -> formatString(node)
    [] node.type = "Number" -> formatNumber(node)
    [] node.type = "Boolean" -> formatBoolean(node)
    [] node.type = "Null" -> formatNull
    [] node.type = "Object" -> formatObject(node, level)
    [] node.type = "Array" -> formatArray(node, level)
    [] node.type = "Substitution" -> formatSubstitution(node)
    [] node.type = "Concatenation" -> formatConcatenation(node, level)
    [] OTHER -> <<>>

formatDocument(doc) == formatMembers(doc.body, 1, 0)

\* output.replace(/\n{3,}/g, '\n\n'): of a run of newlines the first two are
\* kept, so a newline is dropped when two newlines come right before it
collapseBlankLines(s) ==
  Flatten([i \in 1..Len(s) |->
             IF s[i] = "\n" /\ i > 2 /\ s[i - 1] = "\n" /\ s[i - 2] = "\n"
             THEN <<>> ELSE <<s[i]>>])

ensureFinalNewline(s) == IF EndsWith(s, NL) THEN s ELSE s \o NL

\* Formatter.format without the collapse of blank lines
formatAst_mut(ast) == ensureFinalNewline(formatDocument(ast))

\* Formatter.format / formatAst
formatAst(ast) == collapseBlankLines(ensureFinalNewline(formatDocument(ast)))

----------------------------------------------------------------------------
(* Facade (index.ts)                                                       *)

\* format(input); defined when parse returns
format(input) == formatAst(parse(input))

\* check that accepts a text whose final newline is missing
check_mut(input) == input = format(input) \/ input \o NL = format(input)

\* check(input): try { return input === format(input) } catch { return false };
\* no statement of the pipeline throws, so the catch branch has no trigger
check(input) == input = format(input)

----------------------------------------------------------------------------
(* Source texts                                                            *)

MaxFrags == 3

\* all sequences of at most n elements of A
SeqsUpTo(A, n) == UNION {[1..k -> A] : k \in 0..n}

\* fragments of HOCON text: a field, a newline, a '#' comment with a trailing
\* space, a '//' comment, an object field left open, a closing brace, an array
\* field, an unterminated triple-quoted string, a stray quote
Fragments ==
  { <<"a", " ", "=", " ", "1">>,
    NL,
    <<"#", " ", "c", " ">>,
    <<"/", "/", "d">>,
    <<"b", " ", "{">>,
    <<"}">>,
    <<"e", " ", "=", " ", "[", "x", ",", " ", "$", "{", "y", "}", "]">>,
    <<"k", " ", "=", " ", "\"", "\"", "\"", "m">>,
    <<"\"">> }

\* the texts of the documentation and of the tests
\* 'key="value"'
ExKeyValue ==
  <<"k", "e", "y", "=", "\"", "v", "a", "l", "u", "e", "\"">>

\* 'key = "value"\n'
ExKeyValueCanon ==
  <<"k", "e", "y", " ", "=", " ", "\"", "v", "a", "l", "u", "e", "\"", "\n">>

\* '# hi'
ExHashComment ==
  <<"#", " ", "h", "i">>

\* 'timeout = 60 seconds'
ExTimeout ==
  <<"t", "i", "m", "e", "o", "u", "t", " ", "=", " ", "6", "0", " ", "s", "e", "c", "o", "n", "d", "s">>

\* 'keep-alive-time = 60s'
ExKeepAlive ==
  <<"k", "e", "e", "p", "-", "a", "l", "i", "v", "e", "-", "t", "i", "m", "e", " ", "=", " ", "6", "0", "s">>

\* 'delay = 60 s'
ExDelay ==
  <<"d", "e", "l", "a", "y", " ", "=", " ", "6", "0", " ", "s">>

\* 'greeting = "Hello" " " "World"'
ExGreeting ==
  <<"g", "r", "e", "e", "t", "i", "n", "g", " ", "=", " ", "\"", "H", "e", "l", "l", "o", "\"", " ", "\"", " ", "\"", " ", "\"", "W", "o", "r", "l", "d", "\"">>

\* 'config = ${base.config} { key = "value" }'
ExExtend ==
  <<"c", "o", "n", "f", "i", "g", " ", "=", " ", "$", "{", "b", "a", "s", "e", ".", "c", "o", "n", "f", "i", "g", "}", " ", "{", " ", "k", "e", "y", " ", "=", " ", "\"", "v", "a", "l", "u", "e", "\"", " ", "}">>

\* 'arr = [1, 2, 3]'
ExArr ==
  <<"a", "r", "r", " ", "=", " ", "[", "1", ",", " ", "2", ",", " ", "3", "]">>

\* 'server{host="localhost"}'
ExServer ==
  <<"s", "e", "r", "v", "e", "r", "{", "h", "o", "s", "t", "=", "\"", "l", "o", "c", "a", "l", "h", "o", "s", "t", "\"", "}">>

\* 'key1 = "value1"\nkey2 = "value2"\n\n\n'
ExTrailingBlank ==
  <<"k", "e", "y", "1", " ", "=", " ", "\"", "v", "a", "l", "u", "e", "1", "\"", "\n", "k", "e", "y", "2", " ", "=", " ", "\"", "v", "a", "l", "u", "e", "2", "\"", "\n", "\n", "\n">>

\* 'k = """a\n\n\nb"""'
ExTripleNewlines ==
  <<"k", " ", "=", " ", "\"", "\"", "\"", "a", "\n", "\n", "\n", "b", "\"", "\"", "\"">>

\* 'a = 1\nb = 2'
ExBlank0 ==
  <<"a", " ", "=", " ", "1", "\n", "b", " ", "=", " ", "2">>

\* 'a = 1\n\nb = 2'
ExBlank1 ==
  <<"a", " ", "=", " ", "1", "\n", "\n", "b", " ", "=", " ", "2">>

\* 'a = 1\n\n\n\nb = 2'
ExBlank3 ==
  <<"a", " ", "=", " ", "1", "\n", "\n", "\n", "\n", "b", " ", "=", " ", "2">>

\* 'o {\n  a = 1\n\n  b = 2\n}'
ExObjBlank1 ==
  <<"o", " ", "{", "\n", " ", " ", "a", " ", "=", " ", "1", "\n", "\n", " ", " ", "b", " ", "=", " ", "2", "\n", "}">>

\* '// first\n\n// second\nk = 1'
ExCommentBlank ==
  <<"/", "/", " ", "f", "i", "r", "s", "t", "\n", "\n", "/", "/", " ", "s", "e", "c", "o", "n", "d", "\n", "k", " ", "=", " ", "1">>

\* 'k = """m"'
ExUnterminated ==
  <<"k", " ", "=", " ", "\"", "\"", "\"", "m", "\"">>

\* 'a = [=]'
ExStrayEquals ==
  <<"a", " ", "=", " ", "[", "=", "]">>

Examples ==
  { ExKeyValue,
    ExKeyValueCanon,
    ExHashComment,
    ExTimeout,
    ExKeepAlive,
    ExDelay,
    ExGreeting,
    ExExtend,
    ExArr,
    ExServer,
    ExTrailingBlank,
    ExTripleNewlines,
    ExBlank0,
    ExBlank1,
    ExBlank3,
    ExObjBlank1,
    ExCommentBlank,
    ExUnterminated,
    ExStrayEquals }

\* a source text is given as the sequence of its pieces
Givens == SeqsUpTo(Fragments, MaxFrags) \cup {<<e>> : e \in Examples}

----------------------------------------------------------------------------
(* One run of the pipeline over a text, and a second run over its output   *)

VARIABLES given, source, pass, pc, tokens, ast, output, checked

\* the command line run (main): the resolved files as they are on disk, the
\* mode of the options, the position of the for loop, the locals of main, the
\* lines written to the console, and the exit status
VARIABLES files, mode, phase, cursor, hasErrors, errorCount, changedCount,
          console, exitCode

cli == <<files, mode, phase, cursor, hasErrors, errorCount, changedCount,
         console, exitCode>>

vars == <<given, source, pass, pc, tokens, ast, output, checked, files, mode,
          phase, cursor, hasErrors, errorCount, changedCount, console,
          exitCode>>

\* main has not been called
NoRun ==
  /\ files = <<>>
  /\ mode = "none"
  /\ phase = "idle"
  /\ cursor = 0
  /\ hasErrors = FALSE
  /\ errorCount = 0
  /\ changedCount = 0
  /\ console = <<>>
  /\ exitCode = -1

\* the first run starts on a text described by one of Cases
InitWith(Cases) ==
  /\ given \in Cases
  /\ pass = 1
  /\ pc = "start"
  /\ tokens = <<>>
  /\ ast = <<>>
  /\ output = <<>>
  /\ checked = FALSE
  /\ NoRun

Init == InitWith(Givens) /\ source = Flatten(given)

\* parse(): const tokens = tokenize(source)
Tokenize ==
  /\ pc = "start"
  /\ tokens' = tokenize(source)
  /\ pc' = "tokenized"
  /\ UNCHANGED <<given, source, pass, ast, output, checked>>
  /\ UNCHANGED cli

\* parse(): return new Parser(tokens).parse(); "hung" when it never returns
Parse ==
  /\ pc = "tokenized"
  /\ LET r == parseTokens(tokens)
     IN IF r.hang THEN pc' = "hung" /\ ast' = ast
        ELSE pc' = "parsed" /\ ast' = r
  /\ UNCHANGED <<given, source, pass, tokens, output, checked>>
  /\ UNCHANGED cli

\* format(): return formatAst(ast)
Render ==
  /\ pc = "parsed"
  /\ output' = formatAst(ast)
  /\ pc' = "formatted"
  /\ UNCHANGED <<given, source, pass, tokens, ast, checked>>
  /\ UNCHANGED cli

\* check(source), called on the same text
Check ==
  /\ pc = "formatted"
  /\ checked' = check(source)
  /\ pc' = "checked"
  /\ UNCHANGED <<given, source, pass, tokens, ast, output>>
  /\ UNCHANGED cli

\* formatFile: the formatted text replaces the file's content, and the next
\* run reads it
WriteBack ==
  /\ pc = "checked"
  /\ pass = 1
  /\ source' = output
  /\ pass' = 2
  /\ pc' = "start"
  /\ tokens' = <<>>
  /\ ast' = <<>>
  /\ output' = <<>>
  /\ checked' = FALSE
  /\ UNCHANGED given
  /\ UNCHANGED cli

Next == Tokenize \/ Parse \/ Render \/ Check \/ WriteBack

Spec == Init /\ [][Next]_vars

\* format(source) has returned, for the text given (not for its own output)
Formatted == pass = 1 /\ pc \in {"formatted", "checked"}

----------------------------------------------------------------------------
(* Claims checked over Spec                                                *)

\* C1: format is idempotent: formatting the output of format returns it
\* unchanged, format(format(s)) = format(s); here `source` of the second run
\* is format(s) and `output` is format(format(s)).
C1_Idempotent == (pass = 2 /\ pc \in {"formatted", "checked"}) => output = source

\* C2: check(s) is true exactly when format(s) equals s character for
\* character, and false otherwise.
C2_CheckAgreement == pc = "checked" => (checked <=> (output = source))

\* a text that is already canonical has been checked
C2_Witness == pc = "checked" /\ pass = 1 /\ source = ExKeyValueCanon /\ checked

C5_QuotedConcatenation ==
  Formatted =>
    /\ source = ExTimeout => Contains(output, <<"t", "i", "m", "e", "o", "u", "t", " ", "=", " ", "\"", "6", "0", " ", "s", "e", "c", "o", "n", "d", "s", "\"">>)
    /\ source = ExKeepAlive => Contains(output, <<"\"", "6", "0", "s", "\"">>)
    /\ source = ExDelay => Contains(output, <<"\"", "6", "0", " ", "s", "\"">>)
    /\ source = ExGreeting => Contains(output, <<"\"", "H", "e", "l", "l", "o", " ", " ", " ", "W", "o", "r", "l", "d", "\"">>)

\* the tokens of these kinds carry text that is copied to the output
CarriesText(t) == t.type \in {"String", "MultilineString", "Substitution", "Comment"}

C7_BlankLineCollapse ==
  Formatted =>
    /\ source = ExBlank0 => output = <<"a", " ", "=", " ", "1", "\n", "b", " ", "=", " ", "2", "\n">>
    /\ source = ExBlank1 => output = <<"a", " ", "=", " ", "1", "\n", "\n", "b", " ", "=", " ", "2", "\n">>
    /\ source = ExBlank3 => output = <<"a", " ", "=", " ", "1", "\n", "\n", "b", " ", "=", " ", "2", "\n">>
    /\ source = ExObjBlank1 => output = <<"o", " ", "=", " ", "{", "\n", " ", " ", "a", " ", "=", " ", "1", "\n", "\n", " ", " ", "b", " ", "=", " ", "2", "\n", "}", "\n">>
    /\ source = ExCommentBlank => output = <<"/", "/", " ", "f", "i", "r", "s", "t", "\n", "\n", "/", "/", " ", "s", "e", "c", "o", "n", "d", "\n", "k", " ", "=", " ", "1", "\n">>

\* C8: a substitution followed on the same line by an object keeps one space
\* between the substitution's '}' and the object's '{'.
C8_ExtendSpace ==
  (Formatted /\ source = ExExtend) => Contains(output, <<"$", "{", "b", "a", "s", "e", ".", "c", "o", "n", "f", "i", "g", "}", " ", "{">>)

----------------------------------------------------------------------------
(* Fields: the separator                                                   *)

MaxPad == 1

Ind(n) == Rep(" ", 2 * n)

\* a piece of source text with the text expected for it in the output
FieldKeys ==
  { [text |-> <<"k", "e", "y">>, canon |-> <<"k", "e", "y">>],
    [text |-> <<"a", ".", "b">>, canon |-> <<"a", ".", "b">>],
    [text |-> <<"\"", "q", " ", "k", "\"">>, canon |-> <<"\"", "q", " ", "k", "\"">>] }

Separators == {<<"=">>, <<":">>, <<"+", "=">>}

FieldValues ==
  { [text |-> <<"\"", "v", "a", "l", "u", "e", "\"">>, canon |-> <<"\"", "v", "a", "l", "u", "e", "\"">>, object |-> FALSE],
    [text |-> <<"1">>, canon |-> <<"1">>, object |-> FALSE],
    [text |-> <<"t", "r", "u", "e">>, canon |-> <<"t", "r", "u", "e">>, object |-> FALSE],
    [text |-> <<"[", "1", ",", "2", "]">>, canon |-> <<"[", "1", ",", " ", "2", "]">>, object |-> FALSE],
    [text |-> <<"{", "}">>, canon |-> <<"{", "}">>, object |-> TRUE],
    [text |-> <<"{", "x", "=", "1", "}">>, canon |-> <<"{", "\n", " ", " ", "x", " ", "=", " ", "1", "\n", "}">>, object |-> TRUE] }

\* key, separator with up to MaxPad spaces on each side, value, optional
\* final newline; and key, spaces, object for the separator left out
FieldCases ==
  {[key |-> k, sep |-> Rep(" ", i) \o sp \o Rep(" ", j), value |-> v, tail |-> t] :
     k \in FieldKeys, sp \in Separators, i \in 0..MaxPad, j \in 0..MaxPad,
     v \in FieldValues, t \in {<<>>, NL}}
  \cup
  {[key |-> k, sep |-> Rep(" ", i), value |-> v, tail |-> t] :
     k \in FieldKeys, i \in 0..MaxPad, v \in {w \in FieldValues : w.object},
     t \in {<<>>, NL}}

FieldText(g) == g.key.text \o g.sep \o g.value.text \o g.tail

InitFields == InitWith(FieldCases) /\ source = FieldText(given)

SpecFields == InitFields /\ [][Next]_vars

\* C4: every field is rendered as key, then exactly ' = ', then value, whatever
\* separator the source used ('=', ':', '+=', or none before an object);
\* format('key="value"') is 'key = "value"\n', check of that output is true
\* and check('key="value"') is false.
C4_Separator ==
  /\ Formatted => output = given.key.canon \o <<" ", "=", " ">> \o given.value.canon \o NL
  /\ (Formatted /\ source = ExKeyValue) => output = ExKeyValueCanon
  /\ (pc = "checked" /\ source = ExKeyValueCanon) => checked
  /\ (pc = "checked" /\ source = ExKeyValue) => ~checked

\* a field written with ':' and no spaces has been formatted and checked
C4_Witness ==
  /\ pc = "checked" /\ pass = 1
  /\ given.sep = <<":">>
  /\ ~checked

----------------------------------------------------------------------------
(* Arrays: the layout                                                      *)

MaxElems == 2

LongString(n) == <<"\"">> \o Rep("x", n) \o <<"\"">>

\* an element of an array: its source text, the text expected for it, its
\* estimated width (quoted length for a string, literal length for a number or
\* a substitution, 4 or 5 for a boolean, 100 for a nested array) and whether it
\* is a comment
ArrayElems ==
  { [text |-> <<"1">>, canon |-> <<"1">>, est |-> 1, comment |-> FALSE],
    [text |-> <<"t", "r", "u", "e">>, canon |-> <<"t", "r", "u", "e">>, est |-> 4, comment |-> FALSE],
    [text |-> <<"x">>, canon |-> <<"\"", "x", "\"">>, est |-> 3, comment |-> FALSE],
    [text |-> <<"$", "{", "y", "}">>, canon |-> <<"$", "{", "y", "}">>, est |-> 4, comment |-> FALSE],
    [text |-> <<"[", "1", "]">>, canon |-> <<"[", "1", "]">>, est |-> 100, comment |-> FALSE],
    [text |-> <<"#", " ", "c", "\n">>, canon |-> <<"/", "/", " ", "c">>, est |-> 100, comment |-> TRUE],
    [text |-> LongString(maxLineLength - 9), canon |-> LongString(maxLineLength - 9),
     est |-> maxLineLength - 7, comment |-> FALSE],
    [text |-> LongString(maxLineLength - 8), canon |-> LongString(maxLineLength - 8),
     est |-> maxLineLength - 6, comment |-> FALSE] }

\* an array of at most MaxElems elements (a comment is never the last one: the
\* parser does not keep it in the array), as the value of a top-level field
\* (level 0) or of a field of an object (level 1)
ArrayCases ==
  {[elems |-> es, level |-> l] :
     es \in {e \in SeqsUpTo(ArrayElems, MaxElems) : e = <<>> \/ ~e[Len(e)].comment},
     l \in {0, 1}}

ArrayText(g) ==
  (IF g.level = 1 THEN <<"o", " ", "{">> ELSE <<>>)
  \o <<"a", " ", "=", " ", "[">>
  \o Join([i \in 1..Len(g.elems) |-> g.elems[i].text], <<",", " ">>)
  \o <<"]">>
  \o (IF g.level = 1 THEN <<"}">> ELSE <<>>)

InitArrays == InitWith(ArrayCases) /\ source = ArrayText(given)

SpecArrays == InitArrays /\ [][Next]_vars

RECURSIVE SumEst(_)
SumEst(es) == IF es = <<>> THEN 0 ELSE Head(es).est + SumEst(Tail(es))

\* 2, plus each element's estimate, plus 2 per separator
ArrayWidth(es) == 2 + SumEst(es) + 2 * (Len(es) - 1)

HasComment(es) == \E i \in 1..Len(es) : es[i].comment

\* the layout the claim describes for an array at indent level l
ArrayLayout(es, l) ==
  IF es = <<>> THEN <<"[", "]">>
  ELSE IF ~HasComment(es) /\ ArrayWidth(es) < 80
  THEN <<"[">> \o Join([i \in 1..Len(es) |-> es[i].canon], <<",", " ">>) \o <<"]">>
  ELSE <<"[">> \o NL
       \o Flatten([i \in 1..Len(es) |-> Ind(l + 1) \o es[i].canon \o NL])
       \o Ind(l) \o <<"]">>

\* C9: an empty array renders '[]'; a non-empty array with no comment element
\* renders on one line as '[e1, e2, ...]' exactly when its estimated width is
\* below 80; otherwise, or with a comment element, it renders one element per
\* line at one more indent level, without commas, the closing ']' at the
\* parent indent.
C9_ArrayLayout ==
  Formatted =>
    output = (IF given.level = 1 THEN <<"o", " ", "=", " ", "{", "\n">> ELSE <<>>)
             \o Ind(given.level) \o <<"a", " ", "=", " ">>
             \o ArrayLayout(given.elems, given.level) \o NL
             \o (IF given.level = 1 THEN <<"}", "\n">> ELSE <<>>)

\* an array without comments whose estimated width is exactly 80 has been
\* formatted
C9_Witness ==
  Formatted /\ ~HasComment(given.elems) /\ ArrayWidth(given.elems) = 80

----------------------------------------------------------------------------
(* Objects: the layout                                                     *)

MaxDepth == 2
MaxMembers == 2

ObjectMembers ==
  { [text |-> <<"b", "=", "1">>, canon |-> <<"b", " ", "=", " ", "1">>],
    [text |-> <<"i", "n", "c", "l", "u", "d", "e", " ", "\"", "f", "\"">>, canon |-> <<"i", "n", "c", "l", "u", "d", "e", " ", "\"", "f", "\"">>],
    [text |-> <<"c", "=", "{", "}">>, canon |-> <<"c", " ", "=", " ", "{", "}">>] }

\* how the source writes an object: what follows the key, what separates two
\* members, what closes the object (nothing: the object is left open)
ObjectStyles ==
  { [open |-> <<"{">>, sep |-> <<",">>, close |-> <<"}">>],
    [open |-> <<" ", "{", "\n">>, sep |-> <<"\n", " ", " ", " ", " ", " ">>, close |-> <<"\n", "}">>],
    [open |-> <<" ", ":", " ", "{">>, sep |-> <<",", " ">>, close |-> <<" ", "}">>],
    [open |-> <<"{">>, sep |-> <<",">>, close |-> <<>>] }

\* `depth` objects nested in one another under the key `key`, the innermost
\* holding `members`; with `sibling`, a field z follows the innermost object
ObjectCases ==
  {c \in {[key |-> <<"o">>, depth |-> d, members |-> ms, style |-> st, sibling |-> sb] :
             d \in 0..MaxDepth, ms \in SeqsUpTo(ObjectMembers, MaxMembers),
             st \in ObjectStyles, sb \in BOOLEAN} :
     c.sibling => c.style.close # <<>>}
  \cup
  {[key |-> <<"s", "e", "r", "v", "e", "r">>, depth |-> 1,
    members |-> <<[text |-> <<"h", "o", "s", "t", "=", "\"", "l", "o", "c", "a", "l", "h", "o", "s", "t", "\"">>, canon |-> <<"h", "o", "s", "t", " ", "=", " ", "\"", "l", "o", "c", "a", "l", "h", "o", "s", "t", "\"">>]>>,
    style |-> [open |-> <<"{">>, sep |-> <<",">>, close |-> <<"}">>], sibling |-> FALSE]}

ObjectText(g) ==
  Flatten([i \in 1..g.depth |-> g.key \o g.style.open])
  \o Join([i \in 1..Len(g.members) |-> g.members[i].text], g.style.sep)
  \o (IF g.depth > 0 THEN g.style.close ELSE <<>>)
  \o (IF g.sibling THEN g.style.sep \o <<"z", "=", "0">> ELSE <<>>)
  \o Flatten([i \in 1..(g.depth - 1) |-> g.style.close])

InitObjects == InitWith(ObjectCases) /\ source = ObjectText(given)

SpecObjects == InitObjects /\ [][Next]_vars

\* the lines the claim describes: an object that has members opens with
\* 'key = {', holds each member on its own line at 2*d spaces and closes with
\* '}' at 2*(d-1) spaces; an object without members is '{}'
ObjectLines(g) ==
  LET d == g.depth
      n == Len(g.members)
      opened == IF d > 0 /\ n = 0 THEN d - 1 ELSE d
      opener(i) == Ind(i - 1) \o g.key \o <<" ", "=", " ", "{">> \o NL
      closer(i) == Ind(i - 1) \o <<"}">> \o NL
      inner == IF d > 0 /\ n = 0
               THEN Ind(d - 1) \o g.key \o <<" ", "=", " ", "{", "}">> \o NL
               ELSE Flatten([i \in 1..n |-> Ind(d) \o g.members[i].canon \o NL])
                    \o (IF d > 0 THEN closer(d) ELSE <<>>)
      after == IF g.sibling
               THEN Ind(IF d > 0 THEN d - 1 ELSE 0) \o <<"z", " ", "=", " ", "0">> \o NL
               ELSE <<>>
  IN Flatten([i \in 1..opened |-> opener(i)])
     \o inner \o after
     \o Flatten([i \in 1..(d - 1) |-> closer(d - i)])

\* C10: an empty object renders '{}'; a non-empty object renders '{', a
\* newline, each field or include on its own line preceded by exactly 2*d
\* spaces (d the nesting depth of the member) and the closing '}' on its own
\* line at 2*(d-1) spaces; format('server{host="localhost"}') is
\* 'server = {\n  host = "localhost"\n}\n'.
C10_ObjectLayout ==
  /\ Formatted => output = (IF ObjectLines(given) = <<>> THEN NL ELSE ObjectLines(given))
  /\ (Formatted /\ source = ExServer) =>
       output = <<"s", "e", "r", "v", "e", "r", " ", "=", " ", "{", "\n", " ", " ", "h", "o", "s", "t", " ", "=", " ", "\"", "l", "o", "c", "a", "l", "h", "o", "s", "t", "\"", "\n", "}", "\n">>

\* two objects nested in one another, the inner one with members and followed
\* by a field, have been formatted
C10_Witness ==
  Formatted /\ given.depth >= 2 /\ Len(given.members) > 0 /\ given.sibling

----------------------------------------------------------------------------
(* Comments: indentation, trailing whitespace, attachment, blank lines     *)

MaxComments == 2
MaxBlank == 1

\* a comment as written, its content as the lexer keeps it (`value`) and its
\* content without the whitespace at its end (`body`)
CommentTexts ==
  { [text |-> <<"#", " ", "c">>, value |-> <<" ", "c">>, body |-> <<" ", "c">>],
    [text |-> <<"/", "/", "d">>, value |-> <<"d">>, body |-> <<"d">>],
    [text |-> <<"#", " ", "e", " ", " ">>, value |-> <<" ", "e", " ", " ">>, body |-> <<" ", "e">>],
    [text |-> <<"/", "/", " ", "f", "\r">>, value |-> <<" ", "f", "\r">>, body |-> <<" ", "f">>] }

\* the member that follows the comments, with the first line expected for it
Followers ==
  { [kind |-> "scalar", text |-> <<"k", " ", "=", " ", "1">>, first |-> <<"k", " ", "=", " ", "1">>],
    [kind |-> "object", text |-> <<"k", " ", "{", "x", " ", "=", " ", "1", "}">>, first |-> <<"k", " ", "=", " ", "{">>],
    [kind |-> "empty", text |-> <<"k", " ", "=", " ", "{", "}">>, first |-> <<"k", " ", "=", " ", "{", "}">>],
    [kind |-> "array", text |-> <<"k", " ", "=", " ", "[", "1", "]">>, first |-> <<"k", " ", "=", " ", "[", "1", "]">>],
    [kind |-> "include", text |-> <<"i", "n", "c", "l", "u", "d", "e", " ", "\"", "f", "\"">>, first |-> <<"i", "n", "c", "l", "u", "d", "e", " ", "\"", "f", "\"">>],
    [kind |-> "none", text |-> <<>>, first |-> <<>>] }

\* inside `depth` nested objects: a field a, `blank` blank lines, the comments
\* one per line, then the follower; each line starts with `pad` spaces
CommentCases ==
  {[depth |-> d, blank |-> b, pad |-> p, comments |-> cs, follower |-> f] :
     d \in 0..MaxDepth, b \in 0..MaxBlank, p \in {0, 5},
     cs \in SeqsUpTo(CommentTexts, MaxComments) \ {<<>>}, f \in Followers}

CommentText(g) ==
  LET pad == Rep(" ", g.pad)
  IN Flatten([i \in 1..g.depth |-> <<"o", " ", "{", "\n">>])
     \o pad \o <<"a", " ", "=", " ", "1", "\n">>
     \o Rep("\n", g.blank)
     \o Flatten([j \in 1..Len(g.comments) |-> pad \o g.comments[j].text \o NL])
     \o (IF g.follower.kind # "none" THEN pad \o g.follower.text \o NL ELSE <<>>)
     \o Flatten([i \in 1..g.depth |-> <<"}", "\n">>])

InitComments == InitWith(CommentCases) /\ source = CommentText(given)

SpecComments == InitComments /\ [][Next]_vars

\* the member list of the innermost of d nested objects
RECURSIVE Inner(_, _)
Inner(fields, d) == IF d = 0 THEN fields ELSE Inner(fields[1].value.fields, d - 1)

\* C11: a comment in an object's member list (a leading comment of a member or
\* a standalone comment) is rendered on its own line after exactly 2*d spaces,
\* d the nesting depth of the object's members, whatever its indentation in
\* the source.
C11_CommentIndent ==
  (Formatted /\ given.depth > 0 /\ given.follower.kind \in {"scalar", "include", "none"}) =>
    \A j \in 1..Len(given.comments) :
      Contains(output, NL \o Ind(given.depth) \o <<"/", "/">> \o given.comments[j].body)

\* C12: no line of format's output ends with a space, a tab or a carriage
\* return.
C12_NoTrailingWhitespace ==
  pc \in {"formatted", "checked"} =>
    \A i \in 2..Len(output) :
      output[i] = "\n" => output[i - 1] \notin {" ", "\t", "\r"}

\* the Comment elements of a list of members or elements
CommentsIn(nodes) == {i \in 1..Len(nodes) : nodes[i].type = "Comment"}

\* the value of a field holds no comment among its own members or elements
NoCommentInside(value) ==
  /\ value.type = "Object" => CommentsIn(value.fields) = {}
  /\ value.type = "Array" => CommentsIn(value.elements) = {}

\* C14: a run of comments that directly precedes a field or include in the
\* same member list becomes that member's leadingComments, in source order,
\* and is rendered immediately before that member, also when the field's
\* value is an object or an array.
C14_LeadingComments ==
  (Formatted /\ given.follower.kind # "none") =>
    LET members == Inner(ast.body, given.depth)
        member == members[2]
        n == Len(given.comments)
    IN /\ Len(members) = 2
       /\ "leadingComments" \in DOMAIN member
       /\ [j \in 1..Len(member.leadingComments) |-> member.leadingComments[j].value]
            = [j \in 1..n |-> given.comments[j].value]
       /\ member.type = "Field" => NoCommentInside(member.value)
       /\ Contains(output, <<"/", "/">> \o given.comments[n].value \o NL
                           \o Ind(given.depth) \o given.follower.first)

\* the node carries the count b of blank lines before it
HasBlankLines(node, b) ==
  "precedingBlankLines" \in DOMAIN node /\ node.precedingBlankLines = b

\* C15: parse records blank-line counts: a member carries precedingBlankLines
\* equal to the number of blank lines before its first leading comment, and
\* that comment carries the same count; a field after one blank line and two
\* comments has precedingBlankLines = 1, as has its first leading comment.
C15_BlankLineCounts ==
  (Formatted /\ given.blank > 0 /\ given.follower.kind \in {"scalar", "include"}) =>
    LET members == Inner(ast.body, given.depth)
        member == members[2]
    IN /\ Len(members) = 2
       /\ HasBlankLines(member, given.blank)
       /\ "leadingComments" \in DOMAIN member
       /\ HasBlankLines(member.leadingComments[1], given.blank)

----------------------------------------------------------------------------
(* Stray tokens: termination of the parser's loops                         *)

\* tokens that cannot start a member or an element
StrayTokens ==
  { <<"=">>, <<":">>, <<"+", "=">>, <<"}">>, <<"]">>, <<"}", "}", "}">>, <<"i", "n", "c", "l", "u", "d", "e">>, <<",">> }

\* where the stray token stands: what opens and what closes the list
Containers ==
  { [kind |-> "array", open |-> <<"a", " ", "=", " ", "[">>, element |-> <<"1", " ">>, close |-> <<"]">>],
    [kind |-> "object", open |-> <<"o", " ", "{">>, element |-> <<"x", " ", "=", " ", "1", " ">>, close |-> <<"}">>],
    [kind |-> "document", open |-> <<>>, element |-> <<"x", " ", "=", " ", "1", " ">>, close |-> <<>>] }

\* the stray token, alone or after an element, in a list that is closed or not
StrayCases ==
  {[container |-> c, stray |-> s, after |-> a, closed |-> cl] :
     c \in Containers, s \in StrayTokens, a \in BOOLEAN, cl \in BOOLEAN}

StrayText(g) ==
  g.container.open
  \o (IF g.after THEN g.container.element ELSE <<>>)
  \o g.stray
  \o (IF g.closed THEN g.container.close ELSE <<>>)

InitStray == InitWith(StrayCases) /\ source = StrayText(given)

SpecStray == InitStray /\ [][Next]_vars

\* C13: format is total: tokenize, parse and render each terminate for every
\* source text; the parser's loops reach the closing delimiter or the end of
\* input for every token sequence, so parse never stays in a loop.
C13_Total == pc # "hung"

\* ---------------------------------------------------------------------------
\* Includes: one include statement of each of the five forms, over every path
\* of at most MaxPath characters, at the top level or inside an object
\* ---------------------------------------------------------------------------
MaxPath == 2

PathChars == {"p", ".", "/", " ", "\"", "\\"}

Paths == SeqsUpTo(PathChars, MaxPath)

\* the five forms: the wrapper written in the source, and the required flag
\* and kind it stands for
IncludeForms ==
  {[wrapper |-> <<>>, required |-> FALSE, kind |-> <<"f", "i", "l", "e">>],
   [wrapper |-> KwRequired, required |-> TRUE, kind |-> <<"f", "i", "l", "e">>],
   [wrapper |-> <<"u", "r", "l">>, required |-> FALSE, kind |-> <<"u", "r", "l">>],
   [wrapper |-> <<"c", "l", "a", "s", "s", "p", "a", "t", "h">>, required |-> FALSE, kind |-> <<"c", "l", "a", "s", "s", "p", "a", "t", "h">>],
   [wrapper |-> <<"f", "i", "l", "e">>, required |-> FALSE, kind |-> <<"f", "i", "l", "e">>]}

IncludeCases ==
  {[form |-> f, path |-> p, depth |-> d, pad |-> s] :
     f \in IncludeForms, p \in Paths, d \in 0..1, s \in 0..MaxPad}

\* the statement as written: the path as a quoted string literal
IncludeStatement(form, path, pad) ==
  KwInclude \o <<" ">>
  \o (IF form.wrapper = <<>>
      THEN Rep(" ", pad) \o Quoted(path)
      ELSE form.wrapper \o <<"(">> \o Rep(" ", pad) \o Quoted(path)
           \o Rep(" ", pad) \o <<")">>)

IncludeText(g) ==
  IF g.depth = 0
  THEN IncludeStatement(g.form, g.path, g.pad)
  ELSE <<"o", " ", "=", " ", "{", "\n">> \o IncludeStatement(g.form, g.path, g.pad) \o <<"\n", "}">>

InitIncludes == InitWith(IncludeCases) /\ source = IncludeText(given)

SpecIncludes == InitIncludes /\ [][Next]_vars

\* the rendering the five forms have: no wrapper for the kind 'file'
IncludeRendering(form, path) ==
  KwInclude \o <<" ">>
  \o (IF form.required THEN KwRequired \o <<"(">> ELSE <<>>)
  \o (IF form.kind # <<"f", "i", "l", "e">> THEN form.kind \o <<"(">> ELSE <<>>)
  \o <<"\"">> \o escapeString(path) \o <<"\"">>
  \o (IF form.kind # <<"f", "i", "l", "e">> THEN <<")">> ELSE <<>>)
  \o (IF form.required THEN <<")">> ELSE <<>>)

\* C16: each of the five include forms parses to exactly one Include node
\* with the path written, the required flag and the kind of the form ('file'
\* when none is written), and is rendered as include "p", include
\* required("p"), include url("p"), include classpath("p") and include "p".
C16_IncludeRoundTrip ==
  Formatted =>
    LET members == Inner(ast.body, given.depth)
    IN /\ Len(ast.body) = 1
       /\ Len(members) = 1
       /\ members[1].type = "Include"
       /\ members[1].path = given.path
       /\ members[1].required = given.form.required
       /\ members[1].kind = given.form.kind
       /\ output = (IF given.depth = 0
                    THEN IncludeRendering(given.form, given.path) \o NL
                    ELSE <<"o", " ", "=", " ", "{", "\n", " ", " ">> \o IncludeRendering(given.form, given.path)
                         \o <<"\n", "}", "\n">>)

C16_Witness ==
  /\ Formatted
  /\ given.form.wrapper = <<"f", "i", "l", "e">>
  /\ given.path = <<"p", "\"">>
  /\ given.depth = 1
  /\ Contains(output, <<"i", "n", "c", "l", "u", "d", "e", " ", "\"", "p", "\\", "\"", "\"">>)

\* ---------------------------------------------------------------------------
\* Triple-quoted strings
\* ---------------------------------------------------------------------------
TripleQuote == <<"\"", "\"", "\"">>

\* a field whose value is a triple-quoted string closed in the source
IsTripleQuoted(member) ==
  /\ member.type = "Field"
  /\ member.value.type = "String"
  /\ member.value.multiline
  /\ Len(member.value.raw) >= 6
  /\ EndsWith(member.value.raw, TripleQuote)

\* C17: a triple-quoted string value is rendered as its content between
\* triple quotes, the content being, character for character, the source text
\* between the delimiters.
C17_TripleQuotedVerbatim ==
  Formatted =>
    \A i \in 1..Len(ast.body) :
      IsTripleQuoted(ast.body[i]) =>
        LET raw == ast.body[i].value.raw
            content == SubSeq(raw, 4, Len(raw) - 3)
        IN /\ ast.body[i].value.value = content
           /\ Contains(source, TripleQuote \o content \o TripleQuote)
           /\ Contains(output, TripleQuote \o content \o TripleQuote)

\* ---------------------------------------------------------------------------
\* Substitutions: 'a = ${path}' and 'a = ${?path}', with spaces inside the
\* braces, closed or cut off by the end of the input
\* ---------------------------------------------------------------------------
SubstitutionPaths == {<<"x">>, <<"x", ".", "y">>}

SubstitutionCases ==
  {[optional |-> o, path |-> p, lead |-> l, trail |-> t, closed |-> c] :
     o \in BOOLEAN, p \in SubstitutionPaths, l \in 0..MaxPad, t \in 0..MaxPad,
     c \in BOOLEAN}

SubstitutionText(g) ==
  <<"a", " ", "=", " ", "$", "{">> \o (IF g.optional THEN <<"?">> ELSE <<>>)
  \o Rep(" ", g.lead) \o g.path \o Rep(" ", g.trail)
  \o (IF g.closed THEN <<"}">> ELSE <<>>)

InitSubstitutions == InitWith(SubstitutionCases) /\ source = SubstitutionText(given)

SpecSubstitutions == InitSubstitutions /\ [][Next]_vars

\* C18: a substitution is rendered as ${path} or ${?path} without the
\* whitespace written inside the braces, and with a closing brace even when
\* the source ends before one.
C18_SubstitutionNormalized ==
  Formatted =>
    output = <<"a", " ", "=", " ", "$", "{">> \o (IF given.optional THEN <<"?">> ELSE <<>>)
             \o given.path \o <<"}">> \o NL

\* ---------------------------------------------------------------------------
\* Keys: a path of up to MaxSegs segments, each segment written unquoted or
\* quoted, the segments joined by dots
\* ---------------------------------------------------------------------------
MaxSegs == 3

\* the i-th segment: k1, k2, ...
Segment(i) == <<"k", <<"1", "2", "3", "4", "5", "6", "7", "8", "9">>[i]>>

KeyCases ==
  {[quoted |-> q, separator |-> s] :
     q \in UNION {[1..n -> BOOLEAN] : n \in 1..MaxSegs}, s \in {"=", ":"}}

KeyText(g) ==
  Join([i \in 1..Len(g.quoted) |->
          IF g.quoted[i] THEN <<"\"">> \o Segment(i) \o <<"\"">> ELSE Segment(i)],
       <<".">>)
  \o <<" ", g.separator, " ", "1">>

InitKeys == InitWith(KeyCases) /\ source = KeyText(given)

SpecKeys == InitKeys /\ [][Next]_vars

\* C19: the key of a field has at least one part; a dotted unquoted key with
\* n dots has n + 1 parts; and every spelling of a path (all segments
\* unquoted, all quoted, or mixed) gives the same list of parts, the segments
\* in order.
C19_KeyParts ==
  Formatted =>
    /\ Len(ast.body) = 1
    /\ ast.body[1].type = "Field"
    /\ Len(ast.body[1].key.parts) >= 1
    /\ ast.body[1].key.parts = [i \in 1..Len(given.quoted) |-> Segment(i)]

----------------------------------------------------------------------------
(* Command line (main, checkFile, formatFile)                              *)

MaxFiles == 2

\* contents a file can have: canonical, not canonical, and one on which the
\* parser does not return
FileContents == {<<"a", " ", "=", " ", "1", "\n">>, <<"a", "=", "1">>, ExStrayEquals}

\* a file on disk: readFileSync and writeFileSync succeed or throw
FileKinds ==
  {[readable |-> FALSE, writable |-> FALSE, content |-> <<>>]}
  \cup {[readable |-> TRUE, writable |-> w, content |-> c] :
          w \in BOOLEAN, c \in FileContents}

\* checkFile(filePath); hang: check does not return
checkFile(file) ==
  IF ~file.readable THEN [ok |-> FALSE, error |-> TRUE, hang |-> FALSE]
  ELSE IF parse(file.content).hang THEN [ok |-> FALSE, error |-> FALSE, hang |-> TRUE]
  ELSE [ok |-> check(file.content), error |-> FALSE, hang |-> FALSE]

\* formatFile(filePath); written: the content on disk after the call
formatFile(file) ==
  IF ~file.readable
  THEN [ok |-> FALSE, changed |-> FALSE, hang |-> FALSE, written |-> file.content]
  ELSE IF parse(file.content).hang
  THEN [ok |-> FALSE, changed |-> FALSE, hang |-> TRUE, written |-> file.content]
  ELSE IF file.content = format(file.content)
  THEN [ok |-> TRUE, changed |-> FALSE, hang |-> FALSE, written |-> file.content]
  ELSE IF ~file.writable
  THEN [ok |-> FALSE, changed |-> FALSE, hang |-> FALSE, written |-> file.content]
  ELSE [ok |-> TRUE, changed |-> TRUE, hang |-> FALSE,
        written |-> format(file.content)]

InitCli ==
  /\ given = <<>>
  /\ source = <<>>
  /\ pass = 1
  /\ pc = "idle"
  /\ tokens = <<>>
  /\ ast = <<>>
  /\ output = <<>>
  /\ checked = FALSE
  /\ files \in SeqsUpTo(FileKinds, MaxFiles)
  /\ mode \in {"check", "write", "none"}
  /\ phase = "start"
  /\ cursor = 0
  /\ hasErrors = FALSE
  /\ errorCount = 0
  /\ changedCount = 0
  /\ console = <<>>
  /\ exitCode = -1

pipeline == <<given, source, pass, pc, tokens, ast, output, checked>>

\* main, up to the choice of the mode: no file, or no mode, exits with 1
Main ==
  /\ phase = "start"
  /\ IF files = <<>> \/ mode = "none"
     THEN phase' = "exited" /\ exitCode' = 1 /\ cursor' = cursor
     ELSE phase' = "loop" /\ exitCode' = exitCode /\ cursor' = 1
  /\ UNCHANGED <<files, mode, hasErrors, errorCount, changedCount, console>>
  /\ UNCHANGED pipeline

\* check mode, one iteration of: for (const file of files)
CheckStep ==
  /\ phase = "loop"
  /\ mode = "check"
  /\ cursor <= Len(files)
  /\ LET Iteration(result) ==
           IF result.hang
           THEN /\ phase' = "hung"
                /\ UNCHANGED <<cursor, hasErrors, errorCount, console>>
           ELSE /\ phase' = phase
                /\ cursor' = cursor + 1
                /\ hasErrors' = (hasErrors \/ ~result.ok)
                /\ errorCount' = (IF result.ok THEN errorCount ELSE errorCount + 1)
                /\ console' = Append(console, [file |-> cursor, ok |-> result.ok])
     IN Iteration(checkFile(files[cursor]))
  /\ UNCHANGED <<files, mode, changedCount, exitCode>>
  /\ UNCHANGED pipeline

\* check mode, after the loop: process.exit(hasErrors ? 1 : 0)
CheckExit ==
  /\ phase = "loop"
  /\ mode = "check"
  /\ cursor > Len(files)
  /\ exitCode' = (IF hasErrors THEN 1 ELSE 0)
  /\ phase' = "exited"
  /\ UNCHANGED <<files, mode, cursor, hasErrors, errorCount, changedCount, console>>
  /\ UNCHANGED pipeline

\* write mode, one iteration of: for (const file of files)
WriteStep ==
  /\ phase = "loop"
  /\ mode = "write"
  /\ cursor <= Len(files)
  /\ LET Iteration(result) ==
           IF result.hang
           THEN /\ phase' = "hung"
                /\ UNCHANGED <<files, cursor, errorCount, changedCount, console>>
           ELSE /\ phase' = phase
                /\ files' = [files EXCEPT ![cursor].content = result.written]
                /\ cursor' = cursor + 1
                /\ errorCount' = (IF result.ok THEN errorCount ELSE errorCount + 1)
                /\ changedCount' = (IF result.changed THEN changedCount + 1
                                    ELSE changedCount)
                /\ console' = Append(console, [file |-> cursor, ok |-> result.ok])
     IN Iteration(formatFile(files[cursor]))
  /\ UNCHANGED <<mode, hasErrors, exitCode>>
  /\ UNCHANGED pipeline

\* write mode, after the loop: process.exit(errorCount > 0 ? 1 : 0)
WriteExit ==
  /\ phase = "loop"
  /\ mode = "write"
  /\ cursor > Len(files)
  /\ exitCode' = (IF errorCount > 0 THEN 1 ELSE 0)
  /\ phase' = "exited"
  /\ UNCHANGED <<files, mode, cursor, hasErrors, errorCount, changedCount, console>>
  /\ UNCHANGED pipeline

NextCli == Main \/ CheckStep \/ CheckExit \/ WriteStep \/ WriteExit

SpecCli == InitCli /\ [][NextCli]_vars

\* the run has come to rest in check mode: it has exited after the loop, or
\* a call of check does not return
CheckModeAtRest ==
  mode = "check" /\ files # <<>> /\ phase \in {"exited", "hung"}

\* every file has its line on the console, in the order of the files
AllChecked ==
  /\ Len(console) = Len(files)
  /\ \A i \in 1..Len(console) : console[i].file = i

\* check returns true for every file
AllCanonical ==
  \A i \in 1..Len(files) :
    /\ files[i].readable
    /\ ~parse(files[i].content).hang
    /\ check(files[i].content)

\* C20: in check mode every resolved file is checked, in order, whatever the
\* result of the files before it; the process then exits with status 0
\* exactly when check returned true for every file, and with status 1
\* otherwise; and no step of check mode changes a file.
C20_CheckMode ==
  /\ [](CheckModeAtRest =>
          /\ AllChecked
          /\ phase = "exited"
          /\ exitCode \in {0, 1}
          /\ exitCode = 0 <=> AllCanonical)
  /\ [][mode = "check" => files' = files]_vars

----------------------------------------------------------------------------
(* The lexer alone: tokenize over every text of at most MaxChars           *)
(* characters, and over the texts of the pipeline                          *)

MaxChars == 3

LexChars == {"a", "1", "-", ".", "\"", "\\", "$", "{", "}", "/", "#", "+",
             "=", "(", "?", " ", "\t", "\n"}

LexerCases == SeqsUpTo(LexChars, MaxChars) \cup {Flatten(g) : g \in Givens}

InitLexer == InitWith(LexerCases) /\ source = given

SpecLexer == InitLexer /\ [][Tokenize]_vars

\* a character at which no token starts
Unrecognized(src, p) ==
  /\ src[p] \notin WhitespaceChars \cup {"\n", "#", "\""}
  /\ src[p] \notin DOMAIN Structural
  /\ src[p] \notin UnquotedChars
  /\ ~(src[p] = "/" /\ Peek(src, p + 1) = "/")
  /\ ~(src[p] = "+" /\ Peek(src, p + 1) = "=")
  /\ ~(src[p] = "$" /\ Peek(src, p + 1) = "{")

\* the offset just after the raw text of token i
RawEnd(toks, i) == IF i = 0 THEN 0 ELSE toks[i].start + Len(toks[i].raw)

\* C21: the last token, and only the last, is EOF, and the raw texts of the
\* tokens, in order, are the source with exactly the characters at which no
\* token starts deleted: each raw text is the slice of the source at the
\* token's offset, and every character between two raw texts is unrecognized.
C21_Lossless ==
  pc = "tokenized" =>
    /\ Len(tokens) >= 1
    /\ \A i \in 1..Len(tokens) : (tokens[i].type = "EOF") <=> (i = Len(tokens))
    /\ \A i \in 1..Len(tokens) :
         /\ RawEnd(tokens, i - 1) <= tokens[i].start
         /\ tokens[i].raw = SubSeq(source, tokens[i].start + 1, RawEnd(tokens, i))
         /\ \A p \in (RawEnd(tokens, i - 1) + 1)..tokens[i].start :
              p <= Len(source) => Unrecognized(source, p)
    /\ RawEnd(tokens, Len(tokens)) >= Len(source)

C21_Witness ==
  /\ pc = "tokenized"
  /\ source = <<"(", "\t", "#">>
  /\ Len(tokens) = 3

----------------------------------------------------------------------------
(* Value concatenations: a field value of up to MaxParts units, separated  *)
(* by spaces or abutting, followed by each token that ends a value         *)

MaxParts == 3

\* a unit, the type of the node it parses to, and whether its text is closed
\* by its own delimiters
Units ==
  {[text |-> <<"1">>, type |-> "Number", delimited |-> FALSE],
   [text |-> <<"\"", "s", "\"">>, type |-> "String", delimited |-> TRUE],
   [text |-> <<"x">>, type |-> "String", delimited |-> FALSE],
   [text |-> <<"$", "{", "v", "}">>, type |-> "Substitution", delimited |-> TRUE],
   [text |-> <<"[", "1", "]">>, type |-> "Array", delimited |-> TRUE]}

\* where the value stands, and what follows it
ValueContexts ==
  {[kind |-> "last", prefix |-> <<"a", " ", "=", " ">>, suffix |-> <<>>],
   [kind |-> "line", prefix |-> <<"a", " ", "=", " ">>, suffix |-> <<"\n", "b", " ", "=", " ", "2">>],
   [kind |-> "comment", prefix |-> <<"a", " ", "=", " ">>, suffix |-> <<" ", "#", " ", "c", "\n">>],
   [kind |-> "element", prefix |-> <<"a", " ", "=", " ", "[">>, suffix |-> <<",", " ", "3", "]">>],
   [kind |-> "member", prefix |-> <<"o", " ", "=", " ", "{", " ", "a", " ", "=", " ">>, suffix |-> <<" ", "}">>]}

\* units written without a separator stay apart when one of the two is
\* closed by its own delimiters
ConcatCases ==
  {g \in [units : SeqsUpTo(Units, MaxParts) \ {<<>>}, sep : {<<>>, <<" ">>},
          context : ValueContexts] :
     g.sep = <<>> =>
       \A i \in 1..(Len(g.units) - 1) :
         g.units[i].delimited \/ g.units[i + 1].delimited}

ConcatText(g) ==
  g.context.prefix
  \o Join([i \in 1..Len(g.units) |-> g.units[i].text], g.sep)
  \o g.context.suffix

InitConcat == InitWith(ConcatCases) /\ source = ConcatText(given)

SpecConcat == InitConcat /\ [][Next]_vars

\* the node parsed for the value of the case
ValueAt(doc, kind) ==
  CASE kind = "element" -> doc.body[1].value.elements[1]
    [] kind = "member" -> doc.body[1].value.fields[1].value
    [] OTHER -> doc.body[1].value

\* the members beside the value: the next field, the next element
Beside(doc, kind) ==
  CASE kind = "element" -> Len(doc.body[1].value.elements) = 2
    [] kind = "member" -> Len(doc.body[1].value.fields) = 1
    [] kind = "line" -> Len(doc.body) = 2 /\ doc.body[2].type = "Field"
    [] kind = "comment" -> "trailingComment" \in DOMAIN doc.body[1] \/ Len(doc.body) = 2
    [] OTHER -> Len(doc.body) = 1

\* C22: a value of one unit is that unit's node, not wrapped; a value of
\* several units is a Concatenation of at least two parts, one part per unit,
\* none of them a Concatenation; and the parts stop at a newline, a comma, a
\* closing brace or bracket, a comment and the end of the input.
C22_ConcatenationShape ==
  Formatted =>
    LET value == ValueAt(ast, given.context.kind)
        n == Len(given.units)
    IN /\ Beside(ast, given.context.kind)
       /\ n = 1 => value.type = given.units[1].type
       /\ n > 1 =>
            /\ value.type = "Concatenation"
            /\ Len(value.parts) = n
            /\ Len(value.parts) >= 2
            /\ \A i \in 1..n : value.parts[i].type = given.units[i].type

C22_Witness ==
  /\ Formatted
  /\ given.context.kind = "element"
  /\ Len(given.units) = 3
  /\ given.sep = <<>>
  /\ ValueAt(ast, "element").type = "Concatenation"

\* the text format writes for a unit: an unquoted word is quoted
UnitRendering(u) ==
  IF u.type = "String" /\ ~u.delimited THEN <<"\"">> \o u.text \o <<"\"">>
  ELSE u.text

\* the units in order, one space between two units neither of which is a
\* substitution, nothing otherwise
RECURSIVE PartsRendering(_)
PartsRendering(units) ==
  IF Len(units) = 1 THEN UnitRendering(units[1])
  ELSE PartsRendering(SubSeq(units, 1, Len(units) - 1))
       \o (IF units[Len(units) - 1].type # "Substitution"
              /\ units[Len(units)].type # "Substitution"
           THEN <<" ">> ELSE <<>>)
       \o UnitRendering(units[Len(units)])

----------------------------------------------------------------------------
(* Trailing comments: a field, a comment after its value on the same line  *)
(* or on the next line, and the member that follows                        *)

\* a value and the text format writes for it
TrailedValues ==
  {[text |-> <<"1">>, rendering |-> <<"1">>],
   [text |-> <<"\"", "s", "\"">>, rendering |-> <<"\"", "s", "\"">>],
   [text |-> <<"x">>, rendering |-> <<"\"", "x", "\"">>],
   [text |-> <<"{", "}">>, rendering |-> <<"{", "}">>],
   [text |-> <<"[", "1", "]">>, rendering |-> <<"[", "1", "]">>]}

\* what stands between the value and the comment
Gaps ==
  {[sameLine |-> TRUE, text |-> Rep(" ", k)] : k \in 0..(MaxPad + 1)}
  \cup {[sameLine |-> TRUE, text |-> <<"\t">>],
        [sameLine |-> FALSE, text |-> NL],
        [sameLine |-> FALSE, text |-> <<" ", "\n", " ">>]}

NextMembers == {<<>>, <<"b", " ", "=", " ", "2", "\n">>, <<"i", "n", "c", "l", "u", "d", "e", " ", "\"", "f", "\"", "\n">>}

TrailingCases ==
  [depth : 0..MaxDepth, value : TrailedValues, gap : Gaps,
   comment : CommentTexts, next : NextMembers]

TrailingText(g) ==
  Flatten([i \in 1..g.depth |-> <<"o", " ", "{", "\n">>])
  \o <<"a", " ", "=", " ">> \o g.value.text \o g.gap.text \o g.comment.text \o NL
  \o g.next
  \o Flatten([i \in 1..g.depth |-> <<"}", "\n">>])

InitTrailing == InitWith(TrailingCases) /\ source = TrailingText(given)

SpecTrailing == InitTrailing /\ [][Next]_vars

\* C24: a comment after a field's value on the same line is the field's
\* trailingComment, is not a leading comment of the next member, and is
\* rendered on the field's line after exactly one space; a comment on a
\* later line is not a trailingComment.
C24_TrailingComment ==
  Formatted =>
    LET members == Inner(ast.body, given.depth)
        field == members[1]
    IN IF given.gap.sameLine
       THEN /\ "trailingComment" \in DOMAIN field
            /\ field.trailingComment.value = given.comment.value
            /\ Len(members) = (IF given.next = <<>> THEN 1 ELSE 2)
            /\ \A i \in 2..Len(members) : "leadingComments" \notin DOMAIN members[i]
            /\ Contains(output, Ind(given.depth) \o <<"a", " ", "=", " ">> \o given.value.rendering
                                \o <<" ", "/", "/">> \o given.comment.value \o NL)
       ELSE /\ "trailingComment" \notin DOMAIN field
            /\ Contains(output, Ind(given.depth) \o <<"a", " ", "=", " ">> \o given.value.rendering
                                \o NL)

C24_Witness ==
  /\ Formatted
  /\ given.gap.text = <<"\t">>
  /\ given.depth = 1
  /\ given.next # <<>>
  /\ "trailingComment" \in DOMAIN Inner(ast.body, 1)[1]

----------------------------------------------------------------------------
(* Comments at the end of a member list: after the last member of the      *)
(* document, of an object or of an array, closed or cut off by the end of   *)
(* the input                                                                *)

MemberLists ==
  {[kind |-> "document", open |-> <<>>, member |-> <<"a", " ", "=", " ", "1", "\n">>, close |-> <<>>],
   [kind |-> "object", open |-> <<"o", " ", "{", "\n">>, member |-> <<"a", " ", "=", " ", "1", "\n">>, close |-> <<"}", "\n">>],
   [kind |-> "object", open |-> <<"o", " ", "{", "\n">>, member |-> <<"a", " ", "=", " ", "1", "\n">>, close |-> <<>>],
   [kind |-> "array", open |-> <<"a", " ", "=", " ", "[">>, member |-> <<"1", "\n">>, close |-> <<"]", "\n">>],
   [kind |-> "array", open |-> <<"a", " ", "=", " ", "[">>, member |-> <<"1", "\n">>, close |-> <<>>]}

EndCommentCases ==
  [list : MemberLists, pad : 0..MaxPad,
   comments : SeqsUpTo(CommentTexts, MaxComments) \ {<<>>}]

EndCommentText(g) ==
  g.list.open \o g.list.member
  \o Flatten([j \in 1..Len(g.comments) |->
                Rep(" ", g.pad) \o g.comments[j].text \o NL])
  \o g.list.close

InitEndComments == InitWith(EndCommentCases) /\ source = EndCommentText(given)

SpecEndComments == InitEndComments /\ [][Next]_vars

\* the member list of the case
ListOf(doc, kind) ==
  CASE kind = "object" -> doc.body[1].value.fields
    [] kind = "array" -> doc.body[1].value.elements
    [] OTHER -> doc.body

\* C25: the comments after the last member of a list are standalone Comment
\* entries of that list, after the member and in order, and none of them is
\* attached to a member outside the list.
C25_EndComments ==
  Formatted =>
    LET list == ListOf(ast, given.list.kind)
        n == Len(given.comments)
    IN /\ Len(list) = 1 + n
       /\ \A j \in 1..n :
            /\ list[1 + j].type = "Comment"
            /\ list[1 + j].value = given.comments[j].value
       /\ "leadingComments" \notin DOMAIN ast.body[1]
       /\ Len(ast.body) = (IF given.list.kind = "document" THEN 1 + n ELSE 1)

----------------------------------------------------------------------------
(* Includes with both wrappers: include required(kind("p"))                *)

WrappedCases ==
  [kind : IncludeKinds, path : Paths, depth : 0..1, pad : 0..MaxPad]

WrappedStatement(g) ==
  KwInclude \o <<" ">> \o KwRequired \o <<"(">> \o g.kind \o <<"(">>
  \o Rep(" ", g.pad) \o Quoted(g.path) \o Rep(" ", g.pad) \o <<")", ")">>

WrappedText(g) ==
  IF g.depth = 0 THEN WrappedStatement(g)
  ELSE <<"o", " ", "=", " ", "{", "\n">> \o WrappedStatement(g) \o <<"\n", "}">>

InitWrapped == InitWith(WrappedCases) /\ source = WrappedText(given)

SpecWrapped == InitWrapped /\ [][Next]_vars

\* C26: include required(kind("p")) parses to exactly one Include node with
\* required = true, the kind named and the path p, and to no other member.
C26_BothWrappers ==
  Formatted =>
    LET members == Inner(ast.body, given.depth)
    IN /\ Len(ast.body) = 1
       /\ Len(members) = 1
       /\ members[1].type = "Include"
       /\ members[1].required
       /\ members[1].kind = given.kind
       /\ members[1].path = given.path

----------------------------------------------------------------------------
(* Spans: the pipeline over the texts of Spec, of the comments at the end  *)
(* of a list and of the concatenations                                     *)

SpanCases ==
  {Flatten(g) : g \in Givens}
  \cup {EndCommentText(g) : g \in EndCommentCases}
  \cup {ConcatText(g) : g \in ConcatCases}

InitSpans == InitWith(SpanCases) /\ source = given

SpecSpans == InitSpans /\ [][Next]_vars

\* span end offset >= span start offset
SpanOk(node) == node.end >= node.start

\* the start offsets of consecutive siblings are non-decreasing
Ordered(nodes) ==
  \A i \in 1..(Len(nodes) - 1) : nodes[i].start <= nodes[i + 1].start

\* the comments attached to a member
Attached(node) ==
  (IF "leadingComments" \in DOMAIN node THEN node.leadingComments ELSE <<>>)
  \o (IF "trailingComment" \in DOMAIN node THEN <<node.trailingComment>> ELSE <<>>)

RECURSIVE WellSpanned(_)
WellSpanned(node) ==
  /\ SpanOk(node)
  /\ \A i \in 1..Len(Attached(node)) : SpanOk(Attached(node)[i])
  /\ CASE node.type = "Document" ->
            Ordered(node.body) /\ \A i \in 1..Len(node.body) : WellSpanned(node.body[i])
       [] node.type = "Field" -> SpanOk(node.key) /\ WellSpanned(node.value)
       [] node.type = "Object" ->
            Ordered(node.fields) /\ \A i \in 1..Len(node.fields) : WellSpanned(node.fields[i])
       [] node.type = "Array" ->
            Ordered(node.elements)
            /\ \A i \in 1..Len(node.elements) : WellSpanned(node.elements[i])
       [] node.type = "Concatenation" ->
            Ordered(node.parts) /\ \A i \in 1..Len(node.parts) : WellSpanned(node.parts[i])
       [] OTHER -> TRUE

\* C27: every token and every node of the tree has span end >= span start,
\* and in the document body, in an object's fields, in an array's elements
\* and in a concatenation's parts the start offsets of consecutive siblings
\* are non-decreasing.
C27_Spans ==
  /\ \A i \in 1..Len(tokens) : SpanOk(tokens[i])
  /\ pc \in {"parsed", "formatted", "checked"} => WellSpanned(ast)

C27_Witness ==
  /\ pc = "parsed"
  /\ Len(ast.body) = 1
  /\ ast.body[1].type = "Field"
  /\ ast.body[1].value.type = "Array"
  /\ Len(ast.body[1].value.elements) = 3
  /\ ast.body[1].value.elements[1].type = "Comment"
  /\ ast.body[1].value.elements[1].start < ast.body[1].start

----------------------------------------------------------------------------
(* Structure: a field whose key is written as quoted segments, some of     *)
(* them holding a dot or a space, over each kind of value                  *)

SegmentTexts == {<<"k">>, <<"a", ".", "b">>, <<"x", " ", "y">>}

ShapeValues == {<<"1">>, <<"\"", "s", "\"">>, <<"t", "r", "u", "e">>, <<"$", "{", "?", "v", "}">>, <<"x">>, <<"[", "1", ",", " ", "\"", "t", "\"", "]">>}

ShapeCases == [segments : SeqsUpTo(SegmentTexts, MaxSegs) \ {<<>>}, value : ShapeValues]

ShapeText(g) ==
  Join([i \in 1..Len(g.segments) |-> Quoted(g.segments[i])], <<".">>)
  \o <<" ", "=", " ">> \o g.value

InitShape == InitWith(ShapeCases) /\ source = ShapeText(given)

SpecShape == InitShape /\ [][Next]_vars

\* a node without spans, raw text, comments and blank-line counts: its type,
\* its decoded text (string value, number literal, substitution path, include
\* path), its flag (boolean value, optional, required), its key parts or
\* include kind, and its members, elements or parts
RECURSIVE Shape(_)
ShapeOf(nodes) ==
  LET kept == SelectSeq(nodes, LAMBDA n : n.type # "Comment")
  IN [i \in 1..Len(kept) |-> Shape(kept[i])]

Shape(node) ==
  LET S(text, flag, parts, children) ==
        [type |-> node.type, text |-> text, flag |-> flag, parts |-> parts,
         children |-> children]
  IN CASE node.type = "Document" -> S(<<>>, FALSE, <<>>, ShapeOf(node.body))
       [] node.type = "Field" -> S(<<>>, FALSE, node.key.parts, <<Shape(node.value)>>)
       [] node.type = "Include" -> S(node.path, node.required, <<node.kind>>, <<>>)
       [] node.type = "Object" -> S(<<>>, FALSE, <<>>, ShapeOf(node.fields))
       [] node.type = "Array" -> S(<<>>, FALSE, <<>>, ShapeOf(node.elements))
       [] node.type = "Concatenation" -> S(<<>>, FALSE, <<>>, ShapeOf(node.parts))
       [] node.type = "String" -> S(node.value, FALSE, <<>>, <<>>)
       [] node.type = "Number" -> S(node.raw, FALSE, <<>>, <<>>)
       [] node.type = "Boolean" -> S(<<>>, node.value, <<>>, <<>>)
       [] node.type = "Substitution" -> S(node.path, node.optional, <<>>, <<>>)
       [] OTHER -> S(<<>>, FALSE, <<>>, <<>>)

\* C28: the tree parsed from format's output has the structure of the tree
\* parsed from the source: the same fields and includes at every level, the
\* same key parts, the same kinds of values with the same decoded contents.
\* Here `ast` of the second run is parse(format(s)).
C28_StructurePreserved ==
  (pass = 2 /\ pc \in {"parsed", "formatted", "checked"}) =>
    Shape(ast) = Shape(parse(ShapeText(given)))

----------------------------------------------------------------------------
(* Comments kept: comments before the first member of the document, and    *)
(* comments after the last member of a list                                *)

KeptCases ==
  [before : SeqsUpTo(CommentTexts, MaxComments), list : MemberLists,
   after : SeqsUpTo(CommentTexts, MaxComments) \ {<<>>}]

KeptText(g) ==
  Flatten([j \in 1..Len(g.before) |-> g.before[j].text \o NL])
  \o EndCommentText([list |-> g.list, pad |-> 0, comments |-> g.after])

InitKept == InitWith(KeptCases) /\ source = KeptText(given)

SpecKept == InitKept /\ [][Next]_vars

\* the values of the Comment tokens, in order
CommentValues(toks) ==
  LET kept == SelectSeq(toks, LAMBDA t : t.type = "Comment")
  IN [i \in 1..Len(kept) |-> kept[i].value]

\* the start offsets of the Comment nodes of a tree, in the order in which
\* the formatter visits them
RECURSIVE CommentStarts(_)
CommentStartsIn(nodes) == Flatten([i \in 1..Len(nodes) |-> CommentStarts(nodes[i])])

CommentStarts(node) ==
  (IF "leadingComments" \in DOMAIN node
   THEN [i \in 1..Len(node.leadingComments) |-> node.leadingComments[i].start]
   ELSE <<>>)
  \o (CASE node.type = "Comment" -> <<node.start>>
        [] node.type = "Document" -> CommentStartsIn(node.body)
        [] node.type = "Field" -> CommentStarts(node.value)
        [] node.type = "Object" -> CommentStartsIn(node.fields)
        [] node.type = "Array" -> CommentStartsIn(node.elements)
        [] node.type = "Concatenation" -> CommentStartsIn(node.parts)
        [] OTHER -> <<>>)
  \o (IF "trailingComment" \in DOMAIN node THEN <<node.trailingComment.start>> ELSE <<>>)

\* C29: each Comment token is in the tree exactly once and in the output
\* exactly once, and the comments of the output are in the order of the
\* source.
C29_CommentsKept ==
  Formatted =>
    LET starts == CommentStarts(ast)
        kept == SelectSeq(tokens, LAMBDA t : t.type = "Comment")
    IN /\ Len(starts) = Len(kept)
       /\ {starts[i] : i \in 1..Len(starts)} = {kept[i].start : i \in 1..Len(kept)}
       /\ CommentValues(tokenize(output)) = CommentValues(tokens)

----------------------------------------------------------------------------
(* Strings: a field whose value is the quoted text of a decoded value of   *)
(* at most MaxChars characters                                             *)

StringChars == {"a", "n", " ", "\\", "\"", "\n", "\r", "\t"}

StringCases == SeqsUpTo(StringChars, MaxChars)

StringText(v) == <<"s", " ", "=", " ">> \o Quoted(v)

InitStrings == InitWith(StringCases) /\ source = StringText(given)

SpecStrings == InitStrings /\ [][Next]_vars

\* the String tokens among the tokens
Strings(toks) == SelectSeq(toks, LAMBDA t : t.type = "String")

\* C30: tokenizing '"' + escapeString(v) + '"' gives one String token, with
\* the decoded value v, and the string value of a field is v again in the
\* tree parsed from format's output.
C30_EscapeRoundTrip ==
  /\ pc = "tokenized" =>
       /\ Len(Strings(tokens)) = 1
       /\ Strings(tokens)[1].value = given
       /\ Strings(tokens)[1].raw = Quoted(given)
       /\ Len(tokenize(Quoted(given))) = 2
  /\ pc = "parsed" =>
       /\ Len(ast.body) = 1
       /\ ast.body[1].value.type = "String"
       /\ ast.body[1].value.value = given

C30_Witness ==
  /\ pass = 2
  /\ pc = "parsed"
  /\ given = <<"\\", "\"", "\n">>
  /\ ast.body[1].value.value = given

====
